---------------------------- MODULE Spec2Model ----------------------------
(***************************************************************************)
(* A model of lang-pt: the lexeme combinators and the tokenization engine, *)
(* the field trie, the production combinators in their lexer-less and      *)
(* lexer-backed modes, the Packrat cache and the grammar validation.       *)
(*                                                                         *)
(* Bytes are one-character strings, the source buffer is a sequence of     *)
(* them.  Byte positions, token indexes and filtered indexes are 0-based   *)
(* as in the source; a sequence s is read at position i as s[i + 1].       *)
(***************************************************************************)
EXTENDS Integers, Sequences, FiniteSets, TLC

VARIABLES
    mode,             \* which part of the library this behaviour exercises
    code,             \* Code.value: the input bytes
    \* ---- tokenization (src/tokenization.rs)
    tokenizer,        \* the Tokenizer / CombinedTokenizer being run
    pointer,          \* tokenize: pointer
    tokenized_stream, \* tokenize: tokenized_stream
    state_stack,      \* tokenize: state_stack
    current_state,    \* CombinedTokenizer::tokenize: current_state
    tkStatus,         \* "run" | "ok" | "err" | "panic" | "stopped"
    lastStep,         \* what the last loop iteration did (history)
    \* ---- Punctuations alone (src/lexeme/punctuation.rs)
    punct,            \* a Punctuations lexeme
    found,            \* the result of its last consume (history)
    \* ---- grammar validation (src/parsing.rs, src/production/non_terminals)
    grammar,          \* the production graph handed to the parser
    valResult,        \* the result of LexerlessParser::new / DefaultParser::new
    setResult,        \* the last call of set_symbols and its result (history)
    \* ---- parsing (src/parsing.rs, src/production)
    root,             \* the root production
    cache,            \* the lexer-less driver's Cache
    fcache,           \* the lexer-backed driver's Cache
    byteResult,       \* the result of LexerlessParser::parse
    fltrResult,       \* the result of DefaultParser::parse
    \* ---- the token stream alone (src/filtered_stream.rs)
    findResult,       \* the last call of find_filter_ptr and its result
    \* ---- SeparatedList::consume alone (src/production/wrappers)
    sepList           \* the locals of consume and its result

vars == << mode, code, tokenizer, pointer, tokenized_stream, state_stack,
           current_state, tkStatus, lastStep, punct, found, grammar,
           valResult, setResult, root, cache, fcache, byteResult,
           fltrResult, findResult, sepList >>

tkVars == << tokenizer, pointer, tokenized_stream, state_stack,
             current_state, tkStatus, lastStep >>
punctVars == << punct, found >>
valVars == << grammar, valResult, setResult >>
parseVars == << root, cache, fcache, byteResult, fltrResult,
               findResult, sepList >>

(***************************************************************************)
(* Bounds of the model.                                                    *)
(***************************************************************************)
MaxCodeLen == 3
MaxTokens == 4
MaxLitLen == 3

(***************************************************************************)
(* Generic helpers.                                                        *)
(***************************************************************************)
RECURSIVE SeqsUpTo(_, _)
SeqsUpTo(S, n) ==
    IF n = 0 THEN { << >> }
    ELSE LET shorter == SeqsUpTo(S, n - 1)
         IN  shorter \cup { Append(s, x) : s \in shorter, x \in S }

Max(a, b) == IF a >= b THEN a ELSE b

\* code.value[from..]
SliceFrom(s, from) == SubSeq(s, from + 1, Len(s))

\* code_part.starts_with(value)
StartsWith(s, value) ==
    /\ Len(value) <= Len(s)
    /\ SubSeq(s, 1, Len(value)) = value

Last(s) == s[Len(s)]

(***************************************************************************)
(* Tokens.  A token tag is a sequence of strings; the tag a Punctuations   *)
(* test lexeme gives a literal is the literal prefixed with "P".           *)
(***************************************************************************)
EOF == << "EOF" >>
ID == << "ID" >>
RegexLiteral == << "RegexLiteral" >>
Div == << "P", "/" >>
NoToken == << >>
PTok(lit) == << "P" >> \o lit

\* Lex::new(token, start, end); Option<Lex> carries the flag `some`.
Lex(token, start, end) ==
    [some |-> TRUE, token |-> token, start |-> start, end |-> end]
NoLex == [some |-> FALSE, token |-> NoToken, start |-> 0, end |-> 0]

\* no call of find_filter_ptr yet
NoFind == [called |-> FALSE, index |-> 0, ok |-> FALSE, i |-> 0]

(***************************************************************************)
(* FieldTree (src/field_tree.rs).  A node is named by the path of bytes    *)
(* leading to it; `paths` is the set of nodes, `toks` the token of the     *)
(* nodes that have one.                                                    *)
(***************************************************************************)
FieldTreeNew == [paths |-> { << >> }, toks |-> << >>]

Prefixes(value) == { SubSeq(value, 1, n) : n \in 0..Len(value) }

\* FieldTree::insert; the caller guarantees the key is not a duplicate
\* (insert returns Err for one, and Punctuations::new fails).
FieldTreeInsert(tree, value, token) ==
    [paths |-> tree.paths \cup Prefixes(value),
     toks  |-> (value :> token) @@ tree.toks]

RECURSIVE FieldTreeWalk(_, _, _)
FieldTreeWalk(tree, code_part, index) ==
    IF /\ Len(code_part) > index
       /\ SubSeq(code_part, 1, index + 1) \in tree.paths
    THEN FieldTreeWalk(tree, code_part, index + 1)
    ELSE LET path == SubSeq(code_part, 1, index)
         IN  IF path \in DOMAIN tree.toks
             THEN [some |-> TRUE, token |-> tree.toks[path], index |-> index]
             ELSE [some |-> FALSE, token |-> NoToken, index |-> 0]

\* FieldTree::find
FieldTreeFind(tree, code_part) == FieldTreeWalk(tree, code_part, 0)

(***************************************************************************)
(* Lexemes.  Every lexeme is a record of one shape; `kind` selects the     *)
(* implementation of ILexeme::consume.                                     *)
(***************************************************************************)
NoAction == [type |-> "None", state |-> 0, discard |-> FALSE]
NoThunk == [onTok |-> NoToken, prevIn |-> {}, hit |-> NoAction,
            miss |-> NoAction, other |-> NoAction]
NoMapThunk == [minLen |-> 0, to |-> NoToken]

BaseLexeme ==
    [kind |-> "", token |-> NoToken, chars |-> {}, field_tree |-> FieldTreeNew,
     values |-> << >>, inner |-> << >>, actions |-> << >>, thunk |-> NoThunk,
     prevNotIn |-> {}, fields |-> << >>, mapthunk |-> NoMapThunk]

\* Pattern::new(token, regex) with the regex ^[chars]+ ; the constructor
\* rejects a regex that matches the empty string, and this one does not.
Pattern(token, chars) ==
    [BaseLexeme EXCEPT !.kind = "Pattern", !.token = token, !.chars = chars]

RECURSIVE InsertAll(_, _, _)
InsertAll(tree, fields, i) ==
    IF i > Len(fields) THEN tree
    ELSE InsertAll(FieldTreeInsert(tree, fields[i][1], fields[i][2]),
                   fields, i + 1)

\* Punctuations::new(fields); fields is a sequence of << literal, token >>
\* with distinct literals.
Punctuations(fields) ==
    [BaseLexeme EXCEPT !.kind = "Punctuations",
                       !.field_tree = InsertAll(FieldTreeNew, fields, 1)]

\* Constants::new(fields): the values are kept sorted by length.
Constants(fields) ==
    [BaseLexeme EXCEPT !.kind = "Constants", !.values = fields]

\* Mapper::new(lexeme, fields): `fields` maps a literal to a token.
Mapper(lexeme, fields) ==
    [BaseLexeme EXCEPT !.kind = "Mapper", !.inner = << lexeme >>,
                       !.fields = fields]

\* ThunkMapper::new(lexeme, thunk); the thunk answers Some(to) for a token
\* whose text has at least minLen bytes and None for any other.
ThunkMapper(lexeme, thunk) ==
    [BaseLexeme EXCEPT !.kind = "ThunkMapper", !.inner = << lexeme >>,
                       !.mapthunk = thunk]

\* Middleware::new(lexeme, predicate); the predicate is "the last token of
\* the stream is not one of prevNotIn".
Middleware(lexeme, prevNotIn) ==
    [BaseLexeme EXCEPT !.kind = "Middleware", !.inner = << lexeme >>,
                       !.prevNotIn = prevNotIn]

\* StateMixin::new(lexeme, actions): `actions` maps a token to its Action.
StateMixin(lexeme, actions) ==
    [BaseLexeme EXCEPT !.kind = "StateMixin", !.inner = << lexeme >>,
                       !.actions = actions]

\* ThunkStateMixin::new(lexeme, thunk); the thunk answers `hit` for the
\* token onTok after a token of prevIn, `miss` for onTok elsewhere, and
\* `other` for any other token.
ThunkStateMixin(lexeme, thunk) ==
    [BaseLexeme EXCEPT !.kind = "ThunkStateMixin", !.inner = << lexeme >>,
                       !.thunk = thunk]

\* Action::Pop / Append / Switch / None
ActPop(discard) == [type |-> "Pop", state |-> 0, discard |-> discard]
ActAppend(state, discard) ==
    [type |-> "Append", state |-> state, discard |-> discard]
ActSwitch(state, discard) ==
    [type |-> "Switch", state |-> state, discard |-> discard]
ActNone(discard) == [type |-> "None", state |-> 0, discard |-> discard]

(***************************************************************************)
(* ILexeme::consume.  A call returns the Option<Lex>, the state stack it   *)
(* leaves, whether it panicked, and (history) the tokens it matched and    *)
(* then discarded and the state actions it performed, each with the stack  *)
(* it was performed on.                                                    *)
(***************************************************************************)
Consumed(res, stack) ==
    [res |-> res, stack |-> stack, panic |-> FALSE, disc |-> << >>,
     acts |-> << >>]
Panicked(stack) ==
    [res |-> NoLex, stack |-> stack, panic |-> TRUE, disc |-> << >>,
     acts |-> << >>]

\* The length of the match of ^[chars]+ on code_part.
RECURSIVE RegexFind(_, _, _)
RegexFind(chars, code_part, n) ==
    IF n < Len(code_part) /\ code_part[n + 1] \in chars
    THEN RegexFind(chars, code_part, n + 1)
    ELSE n

\* Pattern::consume
PatternConsume(lx, c, ptr, stack) ==
    IF ptr > Len(c) THEN Panicked(stack)
    ELSE LET consumed_ptr == ptr + RegexFind(lx.chars, SliceFrom(c, ptr), 0)
         IN  IF consumed_ptr /= ptr
             THEN Consumed(Lex(lx.token, ptr, consumed_ptr), stack)
             ELSE Consumed(NoLex, stack)

\* Punctuations::consume
PunctuationsConsume(lx, c, ptr, stack) ==
    IF ptr > Len(c) THEN Panicked(stack)
    ELSE LET f == FieldTreeFind(lx.field_tree, SliceFrom(c, ptr))
         IN  IF f.some
             THEN Consumed(Lex(f.token, ptr, ptr + f.index), stack)
             ELSE Consumed(NoLex, stack)

\* Constants::consume: the last (longest) value, whatever the input is.
ConstantsConsume(lx, c, ptr, stack) ==
    IF Len(lx.values) = 0 THEN Consumed(NoLex, stack)
    ELSE LET v == lx.values[Len(lx.values)]
         IN  Consumed(Lex(v[2], ptr, ptr + Len(v[1])), stack)

\* perform_state_action that returns the token although the action discards.
perform_state_action_keep(lexical_data, action, stack) ==
    LET stack2 ==
            CASE action.type = "Pop" ->
                     IF Len(stack) = 0 THEN stack
                     ELSE SubSeq(stack, 1, Len(stack) - 1)
              [] action.type = "Append" -> Append(stack, action.state)
              [] action.type = "Switch" ->
                     IF Len(stack) = 0 THEN << action.state >>
                     ELSE [stack EXCEPT ![Len(stack)] = action.state]
              [] OTHER -> stack
    IN  [res |-> lexical_data, stack |-> stack2,
         panic |-> action.type = "Pop" /\ Len(stack) = 0,
         disc |-> IF action.discard THEN << lexical_data >> ELSE << >>,
         acts |-> << [action |-> action, stack |-> stack] >>]

\* perform_state_action in which Pop on an empty stack leaves the stack
\* empty and goes on.
perform_state_action_lenient(lexical_data, action, stack) ==
    LET stack2 ==
            CASE action.type = "Pop" ->
                     IF Len(stack) = 0 THEN stack
                     ELSE SubSeq(stack, 1, Len(stack) - 1)
              [] action.type = "Append" -> Append(stack, action.state)
              [] action.type = "Switch" ->
                     IF Len(stack) = 0 THEN << action.state >>
                     ELSE [stack EXCEPT ![Len(stack)] = action.state]
              [] OTHER -> stack
    IN  [res |-> IF action.discard THEN NoLex ELSE lexical_data,
         stack |-> stack2, panic |-> FALSE,
         disc |-> IF action.discard THEN << lexical_data >> ELSE << >>,
         acts |-> << [action |-> action, stack |-> stack] >>]

\* perform_state_action
perform_state_action(lexical_data, action, stack) ==
    LET popped == action.type = "Pop" /\ Len(stack) = 0
        stack2 ==
            CASE action.type = "Pop" ->
                     IF Len(stack) = 0 THEN stack
                     ELSE SubSeq(stack, 1, Len(stack) - 1)
              [] action.type = "Append" -> Append(stack, action.state)
              [] action.type = "Switch" ->
                     IF Len(stack) = 0 THEN << action.state >>
                     ELSE [stack EXCEPT ![Len(stack)] = action.state]
              [] OTHER -> stack
        shall_discard == action.discard
        performed == << [action |-> action, stack |-> stack] >>
    IN  IF popped THEN [Panicked(stack) EXCEPT !.acts = performed]
        ELSE IF shall_discard
             THEN [res |-> NoLex, stack |-> stack2, panic |-> FALSE,
                   disc |-> << lexical_data >>, acts |-> performed]
             ELSE [Consumed(lexical_data, stack2) EXCEPT !.acts = performed]

\* The closure given to ThunkStateMixin::new.
thunk_action(thunk, lex, stream) ==
    IF lex.token = thunk.onTok
    THEN IF Len(stream) > 0 /\ Last(stream).token \in thunk.prevIn
         THEN thunk.hit
         ELSE thunk.miss
    ELSE thunk.other

\* The closure given to Middleware::new.
middleware_predicate(prevNotIn, stream) ==
    Len(stream) = 0 \/ Last(stream).token \notin prevNotIn

\* Mapper::consume that ends the token where the input ends.
MapperConsumeToEnd(lx, r, c) ==
    IF r.panic \/ ~r.res.some THEN r
    ELSE [r EXCEPT !.res.end = Len(c)]

\* Mapper::consume, after the call of the inner lexeme returned r.
MapperConsume(lx, r, c) ==
    IF r.panic \/ ~r.res.some THEN r
    ELSE IF r.res.end > Len(c) THEN Panicked(r.stack)
    ELSE LET code_part == SubSeq(c, r.res.start + 1, r.res.end)
         IN  IF code_part \in DOMAIN lx.fields
             THEN [r EXCEPT !.res.token = lx.fields[code_part]]
             ELSE r

\* The closure given to ThunkMapper::new: Some(to) or None (NoToken).
map_thunk(thunk, data, c) ==
    IF Len(SubSeq(c, data.start + 1, data.end)) >= thunk.minLen
    THEN thunk.to ELSE NoToken

\* ThunkMapper::consume, after the call of the inner lexeme returned r.
ThunkMapperConsume(lx, r, c) ==
    IF r.panic \/ ~r.res.some THEN r
    ELSE IF r.res.end > Len(c) THEN Panicked(r.stack)
    ELSE LET token == map_thunk(lx.mapthunk, r.res, c)
         IN  IF token /= NoToken THEN [r EXCEPT !.res.token = token]
             ELSE r

RECURSIVE LexemeConsume(_, _, _, _, _)
LexemeConsume(lx, c, ptr, stream, stack) ==
    CASE lx.kind = "Pattern" -> PatternConsume(lx, c, ptr, stack)
      [] lx.kind = "Punctuations" -> PunctuationsConsume(lx, c, ptr, stack)
      [] lx.kind = "Constants" -> ConstantsConsume(lx, c, ptr, stack)
      [] lx.kind = "Mapper" ->
             MapperConsume(
                 lx, LexemeConsume(lx.inner[1], c, ptr, stream, stack), c)
      [] lx.kind = "ThunkMapper" ->
             ThunkMapperConsume(
                 lx, LexemeConsume(lx.inner[1], c, ptr, stream, stack), c)
      [] lx.kind = "Middleware" ->
             \* Middleware::consume
             IF middleware_predicate(lx.prevNotIn, stream)
             THEN LexemeConsume(lx.inner[1], c, ptr, stream, stack)
             ELSE Consumed(NoLex, stack)
      [] lx.kind = "StateMixin" ->
             \* StateMixin::consume
             LET r == LexemeConsume(lx.inner[1], c, ptr, stream, stack)
             IN  IF r.panic \/ ~r.res.some THEN r
                 ELSE IF r.res.token \in DOMAIN lx.actions
                 THEN LET p == perform_state_action(
                                   r.res, lx.actions[r.res.token], r.stack)
                      IN  [p EXCEPT !.disc = r.disc \o p.disc,
                                    !.acts = r.acts \o p.acts]
                 ELSE r
      [] lx.kind = "ThunkStateMixin" ->
             \* ThunkStateMixin::consume
             LET r == LexemeConsume(lx.inner[1], c, ptr, stream, stack)
             IN  IF r.panic \/ ~r.res.some THEN r
                 ELSE LET action == thunk_action(lx.thunk, r.res, stream)
                          p == perform_state_action(r.res, action, r.stack)
                      IN  [p EXCEPT !.disc = r.disc \o p.disc,
                                    !.acts = r.acts \o p.acts]

(***************************************************************************)
(* Tokenizer::tokenize and CombinedTokenizer::tokenize                     *)
(* (src/tokenization.rs).  A tokenizer is                                  *)
(*   [combined, analyzers, default_state]                                  *)
(* where analyzers maps a state to its list of lexemes; the single-state   *)
(* Tokenizer keeps its list under state 0.                                 *)
(***************************************************************************)
\* find_map that stops at the first lexeme that matched, discarded or not.
RECURSIVE FindMapStop(_, _, _, _, _, _, _, _)
FindMapStop(lexers, i, c, ptr, stream, stack, disc, calls) ==
    IF i > Len(lexers)
    THEN [res |-> NoLex, stack |-> stack, panic |-> FALSE, disc |-> disc,
          acts |-> << >>, calls |-> calls, by |-> 0, at |-> stack]
    ELSE LET r == LexemeConsume(lexers[i], c, ptr, stream, stack)
             d == disc \o [k \in 1..Len(r.disc) |->
                              [lexer |-> i, lex |-> r.disc[k]]]
         IN  IF r.panic \/ r.res.some
             THEN [res |-> r.res, stack |-> r.stack, panic |-> r.panic,
                   disc |-> d, acts |-> r.acts, calls |-> Append(calls, i),
                   by |-> i, at |-> stack]
             ELSE IF Len(r.disc) > 0
             THEN [res |-> NoLex, stack |-> r.stack, panic |-> FALSE,
                   disc |-> d, acts |-> r.acts, calls |-> Append(calls, i),
                   by |-> 0, at |-> stack]
             ELSE LET rest == FindMapStop(lexers, i + 1, c, ptr, stream,
                                          r.stack, d, Append(calls, i))
                  IN  [rest EXCEPT !.acts = r.acts \o @]

\* lexers.iter().find_map(|lexer| lexer.consume(...)): the first lexeme that
\* returns Some; `calls` is the list of lexeme indexes consulted and `at`
\* the state stack the last of them was called with (history).
RECURSIVE FindMap(_, _, _, _, _, _, _, _)
FindMap(lexers, i, c, ptr, stream, stack, disc, calls) ==
    IF i > Len(lexers)
    THEN [res |-> NoLex, stack |-> stack, panic |-> FALSE, disc |-> disc,
          acts |-> << >>, calls |-> calls, by |-> 0, at |-> stack]
    ELSE LET r == LexemeConsume(lexers[i], c, ptr, stream, stack)
             d == disc \o [k \in 1..Len(r.disc) |->
                              [lexer |-> i, lex |-> r.disc[k]]]
         IN  IF r.panic \/ r.res.some
             THEN [res |-> r.res, stack |-> r.stack, panic |-> r.panic,
                   disc |-> d, acts |-> r.acts, calls |-> Append(calls, i),
                   by |-> i, at |-> stack]
             ELSE LET rest == FindMap(lexers, i + 1, c, ptr, stream,
                                      r.stack, d, Append(calls, i))
                  IN  [rest EXCEPT !.acts = r.acts \o @]

NoStep == [disc |-> << >>, calls |-> << >>, by |-> 0, matched |-> FALSE,
           start |-> 0, n |-> 0, acts |-> << >>, state |-> 0,
           stack |-> << >>, at |-> << >>]

\* Tokenizer::new(lexers)
Tokenizer(lexers) ==
    [combined |-> FALSE, analyzers |-> (0 :> lexers), default_state |-> 0]

\* CombinedTokenizer::new(default_state, lexers) followed by add_state for
\* the other states of `analyzers`.
CombinedTokenizer(default_state, analyzers) ==
    [combined |-> TRUE, analyzers |-> analyzers,
     default_state |-> default_state]

\* The start of tokenize: the locals, and the analyzer of the default state.
TokenizeBegin ==
    /\ mode \in { "tokenize", "parse", "stream" }
    /\ tkStatus = "idle"
    /\ pointer' = 0
    /\ tokenized_stream' = << >>
    /\ state_stack' = << >>
    /\ current_state' = tokenizer.default_state
    /\ tkStatus' = IF tokenizer.default_state \in DOMAIN tokenizer.analyzers
                   THEN "run" ELSE "panic"
    /\ lastStep' = NoStep
    /\ UNCHANGED << mode, code, tokenizer, punctVars, valVars, parseVars >>

\* One iteration of the loop of tokenize.
TokenizeLoop ==
    /\ mode \in { "tokenize", "parse", "stream" }
    /\ tkStatus = "run"
    /\ Len(tokenized_stream) < MaxTokens
    /\ LET eof_pointer == Len(code)
           lexers == tokenizer.analyzers[current_state]
           r == FindMap(lexers, 1, code, pointer, tokenized_stream,
                        state_stack, << >>, << >>)
           latest_state == IF Len(r.stack) = 0 THEN tokenizer.default_state
                           ELSE Last(r.stack)
       IN  /\ lastStep' = [disc |-> r.disc, calls |-> r.calls, by |-> r.by,
                           matched |-> r.res.some, start |-> pointer,
                           n |-> Len(lexers), acts |-> r.acts,
                           state |-> current_state, stack |-> state_stack,
                           at |-> r.at]
           /\ state_stack' = r.stack
           /\ IF r.panic
              THEN /\ tkStatus' = "panic"
                   /\ UNCHANGED << pointer, tokenized_stream, current_state >>
              ELSE IF ~r.res.some
              THEN /\ tkStatus' = "err"
                   /\ UNCHANGED << pointer, tokenized_stream, current_state >>
              ELSE /\ pointer' = r.res.end
                   /\ IF r.res.end = eof_pointer
                      THEN /\ tokenized_stream' =
                                  tokenized_stream \o
                                  << r.res, Lex(EOF, eof_pointer, eof_pointer) >>
                           /\ tkStatus' = "ok"
                           /\ UNCHANGED current_state
                      ELSE /\ tokenized_stream' = Append(tokenized_stream, r.res)
                           /\ IF tokenizer.combined
                                 /\ latest_state /= current_state
                              THEN IF latest_state \in DOMAIN tokenizer.analyzers
                                   THEN /\ current_state' = latest_state
                                        /\ tkStatus' = "run"
                                   ELSE /\ tkStatus' = "panic"
                                        /\ UNCHANGED current_state
                              ELSE /\ tkStatus' = "run"
                                   /\ UNCHANGED current_state
    /\ UNCHANGED << mode, code, tokenizer, punctVars, valVars, parseVars >>

(***************************************************************************)
(* The tokenizers and inputs of the tokenization behaviours.               *)
(***************************************************************************)
Bytes == { "a", "+", "/" }
Codes == SeqsUpTo(Bytes, MaxCodeLen)

SetToSeq(S) ==
    CHOOSE s \in [1..Cardinality(S) -> S] :
        /\ \A i, j \in 1..Cardinality(S) : i /= j => s[i] /= s[j]
        /\ \A i, j \in 1..Cardinality(S) : i < j => Len(s[i]) <= Len(s[j])

\* The fields of the Punctuations that gives every literal of lits its PTok.
FieldsOf(lits) ==
    LET s == SetToSeq(lits) IN [i \in 1..Len(s) |-> << s[i], PTok(s[i]) >>]

TkLiterals == { << >>, << "+" >>, << "/" >>, << "+", "+" >>, << "/", "a" >> }
TkLiteralSets == { S \in SUBSET TkLiterals : Cardinality(S) \in 1..2 }

DivPunct == Punctuations(FieldsOf({ << "/" >>, << "+" >> }))

\* The thunk of the ThunkStateMixin example of src/lexeme/mod.rs: a '/' is
\* a Div after an ID and is discarded elsewhere.
DivThunk == [onTok |-> Div, prevIn |-> { ID }, hit |-> ActNone(FALSE),
             miss |-> ActNone(TRUE), other |-> ActNone(FALSE)]

Actions ==
    { ActPop(d) : d \in BOOLEAN } \cup { ActAppend(1, d) : d \in BOOLEAN }
    \cup { ActSwitch(1, d) : d \in BOOLEAN } \cup { ActNone(d) : d \in BOOLEAN }

Patterns == { Pattern(ID, { "a" }), Pattern(RegexLiteral, { "/", "a" }) }
PunctuationsSet == { Punctuations(FieldsOf(S)) : S \in TkLiteralSets }
StateMixins == { StateMixin(DivPunct, Div :> a) : a \in Actions }
OtherLexemes ==
    { ThunkStateMixin(DivPunct, DivThunk),
      Constants(FieldsOf({ << "+" >>, << "+", "+" >> })),
      Mapper(Pattern(ID, { "a" }), << "a" >> :> << "KW" >>),
      Mapper(Constants(FieldsOf({ << "+" >>, << "+", "+" >> })),
             << "+", "+" >> :> << "KW" >>),
      ThunkMapper(Pattern(ID, { "a" }), [minLen |-> 2, to |-> << "Long" >>]),
      Middleware(DivPunct, { ID }) }

Lexemes == Patterns \cup PunctuationsSet \cup StateMixins \cup OtherLexemes

LexerLists ==
    { << l >> : l \in Lexemes }
    \cup { << l, m >> : l \in Lexemes, m \in Lexemes \ StateMixins }
    \cup { << Pattern(ID, { "a" }), m, Pattern(RegexLiteral, { "/", "a" }) >> :
             m \in StateMixins \cup OtherLexemes }

CombinedAnalyzers ==
    { (0 :> << m, Pattern(ID, { "a" }) >>) @@ (1 :> l) :
          m \in StateMixins,
          l \in { << Pattern(ID, { "a" }) >>,
                  << StateMixin(DivPunct, Div :> ActPop(FALSE)),
                     Pattern(ID, { "a" }) >> } }
    \cup { 0 :> << m, Pattern(ID, { "a" }) >> : m \in StateMixins }
    \cup { (0 :> << m, Pattern(RegexLiteral, { "/", "a" }) >>)
           @@ (1 :> << Pattern(ID, { "a" }) >>) : m \in StateMixins }

Tokenizers ==
    { Tokenizer(l) : l \in LexerLists }
    \cup { CombinedTokenizer(0, a) : a \in CombinedAnalyzers }

\* The values of the variables a behaviour does not use.
\* No call of set_symbols yet.
NoSet == [called |-> FALSE, id |-> "", err |-> "", before |-> << >>]

IdleTk ==
    /\ tokenizer = Tokenizer(<< >>)
    /\ pointer = 0
    /\ tokenized_stream = << >>
    /\ state_stack = << >>
    /\ current_state = 0
    /\ tkStatus = "off"
    /\ lastStep = NoStep
IdlePunct ==
    /\ punct = BaseLexeme
    /\ found = NoLex
IdleVal ==
    /\ grammar = [prods |-> << >>, debug |-> FALSE]
    /\ valResult = [state |-> "off", err |-> "", id |-> "", inited |-> {}]
    /\ setResult = NoSet
IdleParse ==
    /\ root = 0
    /\ cache = 0
    /\ fcache = 0
    /\ byteResult = 0
    /\ fltrResult = 0
    /\ findResult = NoFind
    /\ sepList = 0

InitTok ==
    /\ mode = "tokenize"
    /\ code \in Codes
    /\ tokenizer \in Tokenizers
    /\ pointer = 0
    /\ tokenized_stream = << >>
    /\ state_stack = << >>
    /\ current_state = 0
    /\ tkStatus = "idle"
    /\ lastStep = NoStep
    /\ IdlePunct /\ IdleVal /\ IdleParse

NextTok == TokenizeBegin \/ TokenizeLoop

SpecTok == InitTok /\ [][NextTok]_vars

(***************************************************************************)
(* Punctuations::consume on its own, at any cursor of any input.           *)
(***************************************************************************)
PLiterals == SeqsUpTo({ "+", "/" }, MaxLitLen) \ { << >> }
PLiteralSets == { S \in SUBSET PLiterals : Cardinality(S) \in 1..2 }

NotFound == [called |-> FALSE, at |-> 0, res |-> NoLex]

InitPunct ==
    /\ mode = "punct"
    /\ code \in Codes
    /\ punct \in { Punctuations(FieldsOf(S)) : S \in PLiteralSets }
    /\ found = NotFound
    /\ IdleTk /\ IdleVal /\ IdleParse

\* A call of Punctuations::consume(code, at, ..).
PunctConsume ==
    /\ mode = "punct"
    /\ \E at \in 0..Len(code) :
           found' = [called |-> TRUE, at |-> at,
                     res |-> PunctuationsConsume(punct, code, at, << >>).res]
    /\ UNCHANGED << mode, code, punct, tkVars, valVars, parseVars >>

NextPunct == PunctConsume

SpecPunct == InitPunct /\ [][NextPunct]_vars

(***************************************************************************)
(* Properties of tokenization.                                             *)
(***************************************************************************)
Range(s) == { s[i] : i \in 1..Len(s) }

\* C1: an accepted tokenization ends with exactly one EOF token whose start
\* and end are the input length, every token starts where the one before it
\* ends, and the start positions are strictly increasing.
C1_EofContiguousIncreasing ==
    tkStatus = "ok" =>
        /\ Len(tokenized_stream) >= 1
        /\ Last(tokenized_stream) = Lex(EOF, Len(code), Len(code))
        /\ \A i \in 1..(Len(tokenized_stream) - 1) :
               /\ tokenized_stream[i].token /= EOF
               /\ tokenized_stream[i].end = tokenized_stream[i + 1].start
               /\ tokenized_stream[i].start < tokenized_stream[i + 1].start

\* The accepted tokenization of C1's failing input: an empty token before
\* the EOF token of an empty input.
C1_EmptyTokenAccepted ==
    /\ tkStatus = "ok"
    /\ code = << >>
    /\ tokenized_stream = << Lex(PTok(<< >>), 0, 0), Lex(EOF, 0, 0) >>

\* The literals of a Punctuations lexeme.
LiteralsOf(lx) == DOMAIN lx.field_tree.toks

\* The longest literal of lx that is a prefix of the input left at `at`.
LongestLiteral(lx, c, at) ==
    LET M == { l \in LiteralsOf(lx) : StartsWith(SliceFrom(c, at), l) }
    IN  IF M = {} THEN NoLex
        ELSE LET l == CHOOSE x \in M : \A y \in M : Len(y) <= Len(x)
             IN  Lex(lx.field_tree.toks[l], at, at + Len(l))

\* C2: at every cursor position Punctuations returns the token of the
\* longest of its literals that is a prefix of the remaining input (and
\* nothing when no literal is).
C2_LongestLiteral ==
    found.called => found.res = LongestLiteral(punct, code, found.at)

\* The call of C2's failing input: "+" is a literal and a prefix of the
\* input, and consume returns nothing.
C2_ShorterLiteralMissed ==
    /\ found.called
    /\ ~found.res.some
    /\ LongestLiteral(punct, code, found.at).some

\* The token appended by the last iteration of the loop.
Appended ==
    IF tkStatus = "ok" THEN tokenized_stream[Len(tokenized_stream) - 1]
    ELSE Last(tokenized_stream)

\* C7 as stated: when a state action discards the matched token, no token
\* of that lexeme is appended and the cursor is at the end of the discarded
\* token.
C7_DiscardAdvances ==
    \A k \in 1..Len(lastStep.disc) :
        /\ lastStep.by /= lastStep.disc[k].lexer
        /\ pointer = lastStep.disc[k].lex.end

\* C7, amended: when a state action discards the matched token, the lexeme
\* returns nothing: no token of that lexeme is appended, and the cursor
\* does not move to the end of the discarded token.  It moves only if a
\* lexeme declared later matches at the same position, to the end of that
\* lexeme's token; otherwise it stays where the discarded token starts and
\* tokenization fails there.
C7_DiscardKeepsCursor ==
    \A k \in 1..Len(lastStep.disc) :
        LET d == lastStep.disc[k]
        IN  /\ d.lex.start = lastStep.start
            /\ lastStep.by /= d.lexer
            /\ IF lastStep.matched
               THEN /\ lastStep.by > d.lexer
                    /\ Appended.start = d.lex.start
                    /\ pointer = Appended.end
               ELSE /\ pointer = d.lex.start
                    /\ tkStatus \in { "err", "panic" }

\* A discard after which no later lexeme matches: tokenization fails at the
\* start of the discarded, non-empty token.
C7_Witness ==
    /\ Len(lastStep.disc) > 0
    /\ ~lastStep.matched
    /\ tkStatus = "err"
    /\ lastStep.disc[1].lex.end > lastStep.disc[1].lex.start
    /\ pointer = lastStep.disc[1].lex.start

\* C8: when a mixin discards a matched token, the tokenizer goes on to the
\* lexemes declared after it at the same cursor position, so a later lexeme
\* can match a token that starts where the discarded one did.
C8_LaterLexemesTried ==
    \A k \in 1..Len(lastStep.disc) :
        LET d == lastStep.disc[k]
            upto == IF lastStep.by > 0 THEN lastStep.by ELSE lastStep.n
        IN  /\ \A j \in (d.lexer + 1)..upto : j \in Range(lastStep.calls)
            /\ lastStep.by = 0 => ~lastStep.matched /\ upto >= d.lexer
            /\ lastStep.matched =>
                   /\ lastStep.by > d.lexer
                   /\ Appended.start = d.lex.start

\* The example of src/lexeme/mod.rs: '/' is rejected as Div and the pattern
\* declared after the mixin matches a RegexLiteral at the same position.
C8_Witness ==
    /\ Len(lastStep.disc) > 0
    /\ lastStep.disc[1].lex.token = Div
    /\ lastStep.matched
    /\ Appended.token = RegexLiteral
    /\ Appended.start = lastStep.disc[1].lex.start


(***************************************************************************)
(* Grammar validation (src/parsing.rs, src/production).  A grammar is     *)
(*   [prods, debug]                                                        *)
(* where prods maps a production identifier to [kind, kids, set]: kids     *)
(* are the identifiers of the symbols (for SeparatedList the production    *)
(* and the separator), `set` tells whether the symbols were assigned, and  *)
(* debug is cfg!(debug_assertions).  The root is "R".                      *)
(***************************************************************************)
MaxKids == 2
MaxDepth == 10

Prod(kind, kids) == [kind |-> kind, kids |-> kids, set |-> TRUE]
Unset(kind) == [kind |-> kind, kids |-> << >>, set |-> FALSE]

\* Result<(), ImplementationError> and Result<bool, ImplementationError>
\* together with the state the call leaves: the set visited_prod and the
\* nullability cells of the non-terminals (nulT: Some(true), nulF:
\* Some(false)); err is "" for Ok.
\* Some(false)), and the non-terminals whose unset symbols get_productions
\* initialised to the empty list.
NewValState == [visited |-> {}, nulT |-> {}, nulF |-> {}, inited |-> {}]
VOk(val, st) == [err |-> "", id |-> "", val |-> val, st |-> st]
VErr(err, id, st) == [err |-> err, id |-> id, val |-> FALSE, st |-> st]

RECURSIVE ObtainNullability(_, _, _, _, _)
RECURSIVE ObtainLoop(_, _, _, _, _, _, _)

\* The loop of Concat::obtain_nullability (stop = FALSE: leave at the first
\* symbol that is not nullable) and of Union::obtain_nullability (stop =
\* TRUE: leave at the first symbol that is).
ObtainLoop(G, kids, i, stop, visited, st, fuel) ==
    IF i > Len(kids) THEN VOk(~stop, st)
    ELSE LET r == ObtainNullability(G, kids[i], visited, st, fuel - 1)
         IN  IF r.err /= "" THEN r
             ELSE IF r.val = stop THEN VOk(stop, r.st)
             ELSE ObtainLoop(G, kids, i + 1, stop, visited, r.st, fuel)

\* IProduction::obtain_nullability
ObtainNullability(G, p, visited, st, fuel) ==
    LET g == G.prods[p]
    IN  IF fuel = 0 THEN VErr("StackOverflow", p, st)
        ELSE CASE g.kind = "Token" -> VOk(FALSE, st)
          [] g.kind = "Null" -> VOk(TRUE, st)
          [] g.kind = "Nullable" -> VOk(TRUE, st)
          [] g.kind \in { "Node", "List" } ->
                 ObtainNullability(G, g.kids[1], visited, st, fuel - 1)
          [] g.kind = "SeparatedList" ->
                 LET a == ObtainNullability(G, g.kids[1], visited, st, fuel - 1)
                 IN  IF a.err /= "" \/ ~a.val THEN a
                     ELSE ObtainNullability(G, g.kids[2], visited, a.st,
                                            fuel - 1)
          [] OTHER ->
                 \* NTHelper::validate_circular_dependency, then the cell
                 IF p \in visited THEN VErr("LeftRecursive", p, st)
                 ELSE IF p \in st.nulT THEN VOk(TRUE, st)
                 ELSE IF p \in st.nulF THEN VOk(FALSE, st)
                 ELSE IF ~g.set /\ p \notin st.inited /\ G.debug
                 THEN VErr("Panic", p, st)
                 ELSE LET r == ObtainLoop(G, g.kids, 1, g.kind = "Union",
                                          visited \cup { p },
                                          [st EXCEPT !.inited =
                                               IF g.set THEN @
                                               ELSE @ \cup { p }],
                                          fuel)
                      IN  IF r.err /= "" THEN r
                          ELSE IF r.val
                          THEN [r EXCEPT !.st.nulT = @ \cup { p }]
                          ELSE [r EXCEPT !.st.nulF = @ \cup { p }]

\* NTHelper::has_visited: Err when the identifier is in connected_set;
\* otherwise Ok(true) when this call inserts it into visited_prod (and into
\* connected_set), Ok(false) when visited_prod had it already.
has_visited(p, connected_set, st) ==
    IF p \in connected_set
    THEN [err |-> "LeftRecursion.", val |-> FALSE,
          connected_set |-> connected_set, st |-> st]
    ELSE IF p \notin st.visited
    THEN [err |-> "", val |-> TRUE, connected_set |-> connected_set \cup { p },
          st |-> [st EXCEPT !.visited = @ \cup { p }]]
    ELSE [err |-> "", val |-> FALSE, connected_set |-> connected_set,
          st |-> st]

RECURSIVE Validate(_, _, _, _, _)
RECURSIVE ValidateConcatLoop(_, _, _, _, _, _, _)
RECURSIVE ValidateUnionLoop(_, _, _, _, _, _)

\* The loop of Concat::validate over the symbols.
ValidateConcatLoop(G, kids, i, is_nullable, connected_set, st, fuel) ==
    IF i > Len(kids) THEN VOk(TRUE, st)
    ELSE IF is_nullable
    THEN LET v == Validate(G, kids[i], connected_set, st, fuel - 1)
         IN  IF v.err /= "" THEN v
             ELSE LET n == ObtainNullability(G, kids[i], {}, v.st, fuel - 1)
                  IN  IF n.err /= "" THEN n
                      ELSE ValidateConcatLoop(G, kids, i + 1, n.val,
                                              connected_set, n.st, fuel)
    ELSE LET v == Validate(G, kids[i], {}, st, fuel - 1)
         IN  IF v.err /= "" THEN v
             ELSE ValidateConcatLoop(G, kids, i + 1, FALSE, connected_set,
                                     v.st, fuel)

\* The loop of Union::validate over the symbols.
ValidateUnionLoop(G, kids, i, connected_set, st, fuel) ==
    IF i > Len(kids) THEN VOk(TRUE, st)
    ELSE LET v == Validate(G, kids[i], connected_set, st, fuel - 1)
         IN  IF v.err /= "" THEN v
             ELSE ValidateUnionLoop(G, kids, i + 1, connected_set, v.st, fuel)

\* IProduction::validate
Validate(G, p, connected_set, st, fuel) ==
    LET g == G.prods[p]
    IN  IF fuel = 0 THEN VErr("StackOverflow", p, st)
        ELSE CASE g.kind \in { "Token", "Null" } -> VOk(TRUE, st)
          [] g.kind \in { "Node", "List", "Nullable" } ->
                 Validate(G, g.kids[1], connected_set, st, fuel - 1)
          [] g.kind = "SeparatedList" ->
                 LET n == ObtainNullability(G, g.kids[1], {}, st, fuel - 1)
                     v == Validate(G, g.kids[1], connected_set, n.st, fuel - 1)
                 IN  IF n.err /= "" THEN n
                     ELSE IF v.err /= "" THEN v
                     ELSE Validate(G, g.kids[2],
                                   IF n.val THEN connected_set ELSE {},
                                   v.st, fuel - 1)
          [] OTHER ->
                 LET h == has_visited(p, connected_set, st)
                 IN  IF h.err /= "" THEN VErr(h.err, p, h.st)
                     ELSE IF h.val THEN VOk(TRUE, h.st)
                     ELSE IF ~g.set /\ p \notin h.st.inited
                     THEN VErr("InitializationError", p, h.st)
                     ELSE IF g.kind = "Concat"
                     THEN ValidateConcatLoop(G, g.kids, 1, TRUE,
                                             h.connected_set, h.st, fuel)
                     ELSE ValidateUnionLoop(G, g.kids, 1, h.connected_set,
                                            h.st, fuel)

\* LexerlessParser::new(root) / DefaultParser::new(tokenizer, root): the
\* parser is built when validate returns Ok.
ParserNew ==
    /\ mode = "validate"
    /\ valResult.state = "idle"
    /\ LET v == Validate(grammar, "R", {}, NewValState, MaxDepth)
       IN  valResult' = [state |-> "done", err |-> v.err, id |-> v.id,
                         inited |-> v.st.inited]
    /\ UNCHANGED << mode, code, grammar, setResult, tkVars, punctVars,
                    parseVars >>

\* Concat::set_symbols / Union::set_symbols called on the non-terminal p of
\* the grammar once the parser was constructed: OnceCell::set fails when the
\* cell holds a value, given by new, by an earlier set_symbols or by
\* get_productions.
SetSymbols(p, symbols) ==
    /\ mode = "validate"
    /\ valResult.state = "done"
    /\ valResult.err = ""
    /\ p \in DOMAIN grammar.prods
    /\ grammar.prods[p].kind \in { "Concat", "Union" }
    /\ IF grammar.prods[p].set \/ p \in valResult.inited
       THEN /\ setResult' = [called |-> TRUE, id |-> p,
                             err |-> "Symbols is already set",
                             before |-> grammar.prods]
            /\ UNCHANGED grammar
       ELSE /\ setResult' = [called |-> TRUE, id |-> p, err |-> "",
                             before |-> grammar.prods]
            /\ grammar' = [grammar EXCEPT
                               !.prods[p] = Prod(@.kind, symbols)]
    /\ UNCHANGED << mode, code, valResult, tkVars, punctVars, parseVars >>


(***************************************************************************)
(* The grammars of the validation behaviours.                              *)
(***************************************************************************)
Symbols == { "A", "E", "N1", "N2" }
NTKinds == { "Concat", "Union" }
NTBodies(n) ==
    { Prod(k, kids) : k \in NTKinds, kids \in SeqsUpTo(Symbols, n) \ { << >> } }
Roots ==
    { Prod("Node", << "N1" >>), Prod("List", << "N1" >>),
      Prod("Nullable", << "N1" >>), Prod("SeparatedList", << "N1", "A" >>),
      Prod("SeparatedList", << "N1", "N1" >>),
      Prod("SeparatedList", << "A", "N1" >>) }

Family ==
    { [prods |-> [p \in Symbols \cup { "R" } |->
                     CASE p = "A" -> Prod("Token", << >>)
                       [] p = "E" -> Prod("Null", << >>)
                       [] p = "N1" -> b1
                       [] p = "N2" -> b2
                       [] OTHER -> r],
       debug |-> d] :
          b1 \in NTBodies(MaxKids),
          b2 \in NTBodies(MaxKids - 1) \cup { Unset("Concat") },
          r \in Roots, d \in BOOLEAN }

\* circular_dependency_test of src/production/__tests__/validations/mod.rs
CircularTest ==
    [prods |-> [p \in { "A", "B", "ID1", "ID2", "R" } |->
                   CASE p \in { "A", "B" } -> Prod("Token", << >>)
                     [] p = "ID1" -> Prod("Concat", << "ID2", "B", "ID1" >>)
                     [] p = "ID2" -> Prod("Concat", << "ID1", "B", "A" >>)
                     [] OTHER -> Prod("Node", << "ID2" >>)],
     debug |-> TRUE]

\* circular_dependency_test2 of the same file
CircularTest2 ==
    [prods |-> [p \in { "A", "B", "NP1", "NP2", "N_ID1", "ID1", "ID2", "R" } |->
                   CASE p \in { "A", "B" } -> Prod("Token", << >>)
                     [] p = "NP1" -> Prod("Nullable", << "A" >>)
                     [] p = "NP2" -> Prod("Nullable", << "B" >>)
                     [] p = "N_ID1" -> Prod("Concat", << "NP1", "NP2" >>)
                     [] p = "ID1" -> Prod("Concat", << "N_ID1", "ID1" >>)
                     [] p = "ID2" -> Prod("Concat", << "ID1", "B", "A" >>)
                     [] OTHER -> Prod("Node", << "ID2" >>)],
     debug |-> TRUE]

Grammars == Family \cup { CircularTest, CircularTest2 }

InitVal ==
    /\ mode = "validate"
    /\ code = << >>
    /\ grammar \in Grammars
    /\ valResult = [state |-> "idle", err |-> "", id |-> "", inited |-> {}]
    /\ setResult = NoSet
    /\ IdleTk /\ IdlePunct /\ IdleParse

\* The symbol lists given to set_symbols.
SetChoices == { << >>, << "A" >>, << "N1" >> }

NextVal ==
    \/ ParserNew
    \/ \E p \in { "N1", "N2" }, symbols \in SetChoices : SetSymbols(p, symbols)

SpecVal == InitVal /\ [][NextVal]_vars

(***************************************************************************)
(* Left recursion, as a property of the grammar.                           *)
(***************************************************************************)
\* The productions that derive the empty string, given those of S that do.
NullableStep(G, S) ==
    { p \in DOMAIN G.prods :
        LET g == G.prods[p]
        IN  CASE g.kind = "Token" -> FALSE
              [] g.kind \in { "Null", "Nullable" } -> TRUE
              [] g.kind \in { "Node", "List", "SeparatedList" } ->
                     g.kids[1] \in S
              [] g.kind = "Concat" ->
                     g.set /\ \A i \in 1..Len(g.kids) : g.kids[i] \in S
              [] OTHER -> \E i \in 1..Len(g.kids) : g.kids[i] \in S }

RECURSIVE NullableFrom(_, _)
NullableFrom(G, S) ==
    LET T == NullableStep(G, S) IN IF T = S THEN S ELSE NullableFrom(G, T)

NullableProds(G) == NullableFrom(G, {})

\* The symbols a production can begin with.
LeftKids(G, p) ==
    LET g == G.prods[p]
        N == NullableProds(G)
    IN  CASE g.kind \in { "Token", "Null" } -> {}
          [] g.kind \in { "Node", "List", "Nullable" } -> { g.kids[1] }
          [] g.kind = "SeparatedList" ->
                 { g.kids[1] }
                 \cup (IF g.kids[1] \in N THEN { g.kids[2] } ELSE {})
          [] g.kind = "Concat" ->
                 { g.kids[i] : i \in { k \in 1..Len(g.kids) :
                                         \A j \in 1..(k - 1) : g.kids[j] \in N } }
          [] OTHER -> Range(g.kids)

RECURSIVE LeftClosure(_, _)
LeftClosure(G, S) ==
    LET T == S \cup UNION { LeftKids(G, p) : p \in S }
    IN  IF T = S THEN S ELSE LeftClosure(G, T)

RECURSIVE KidClosure(_, _)
KidClosure(G, S) ==
    LET T == S \cup UNION { Range(G.prods[p].kids) : p \in S }
    IN  IF T = S THEN S ELSE KidClosure(G, T)

\* The productions of the grammar that can begin with themselves.
LeftRecursiveProds(G) ==
    { p \in KidClosure(G, { "R" }) : p \in LeftClosure(G, LeftKids(G, p)) }

AllSet(G) == \A p \in DOMAIN G.prods : G.prods[p].set

\* C4: the construction of a parser rejects every left-recursive grammar
\* with an ImplementationError that names a production that is re-entered.
C4_LeftRecursionRejected ==
    (/\ valResult.state = "done"
     /\ AllSet(grammar)
     /\ LeftRecursiveProds(grammar) /= {})
    => /\ valResult.err \in { "LeftRecursion.", "LeftRecursive" }
       /\ valResult.id \in LeftRecursiveProds(grammar)

\* The grammar of circular_dependency_test, whose parser is built although
\* ID2 begins with ID1 and ID1 with ID2.
C4_CircularTestAccepted ==
    /\ valResult.state = "done"
    /\ grammar = CircularTest
    /\ LeftRecursiveProds(grammar) = { "ID1", "ID2" }
    /\ valResult.err = ""

(***************************************************************************)
(* Productions (src/production).  A production is a record of one shape;  *)
(* kids are the productions it owns.  A Field stands for a terminal of the *)
(* grammar in its two forms: the ConstantField of the lexer-less grammar   *)
(* matches the bytes `value`, the TokenField of the lexer-backed grammar   *)
(* matches the token PTok(value) the tokenizer gives to those bytes.       *)
(* The methods eat_ptr / eat_fltr_ptr of the terminals, Concat and Node    *)
(* are the trait's advance_ptr / advance_fltr_ptr.                         *)
(***************************************************************************)
NoNode == ""          \* node_value: None
NullNode == "NULL"    \* NodeImpl::null()

BaseProd ==
    [kind |-> "", value |-> << >>, node |-> NoNode, kids |-> << >>,
     nodes |-> << >>, flag |-> FALSE, key |-> 0]

Field(value, node) ==
    [BaseProd EXCEPT !.kind = "Field", !.value = value, !.node = node]
EOFProd(node) == [BaseProd EXCEPT !.kind = "EOFProd", !.node = node]
\* NullProd::new() and NullProd::hidden()
NullProdNew == [BaseProd EXCEPT !.kind = "NullProd", !.node = NullNode]
NullProdHidden == [BaseProd EXCEPT !.kind = "NullProd", !.node = NoNode]
Concat(symbols) == [BaseProd EXCEPT !.kind = "Concat", !.kids = symbols]
Union(symbols) == [BaseProd EXCEPT !.kind = "Union", !.kids = symbols]
\* suffixes: a sequence of << production, node value >>
Suffixes(left, standalone, suffixes) ==
    [BaseProd EXCEPT !.kind = "Suffixes",
                     !.kids = << left >> \o [i \in DOMAIN suffixes |-> suffixes[i][1]],
                     !.nodes = [i \in DOMAIN suffixes |-> suffixes[i][2]],
                     !.flag = standalone]
List(symbol) == [BaseProd EXCEPT !.kind = "List", !.kids = << symbol >>]
SeparatedList(production, separator, inclusive) ==
    [BaseProd EXCEPT !.kind = "SeparatedList",
                     !.kids = << production, separator >>,
                     !.flag = inclusive]
\* Nullable::new(symbol) and Nullable::hidden(production)
NullableNew(symbol) ==
    [BaseProd EXCEPT !.kind = "Nullable", !.kids = << symbol >>,
                     !.node = NullNode]
NullableHidden(production) ==
    [BaseProd EXCEPT !.kind = "Nullable", !.kids = << production >>]
Node(production, node) ==
    [BaseProd EXCEPT !.kind = "Node", !.kids = << production >>, !.node = node]
\* validation_fn is a closure over the children: the one of the model rejects
\* a parse whose first child starts at or after `from`, as the closure of the
\* documentation rejects on what the first child spans.
Validator(production, from, message) ==
    [BaseProd EXCEPT !.kind = "Validator", !.kids = << production >>,
                     !.key = from, !.node = message]
Cacheable(cache_key, production) ==
    [BaseProd EXCEPT !.kind = "Cacheable", !.kids = << production >>,
                     !.key = cache_key]
\* NonStructural::new(symbol, shall_fill_range)
NonStructural(symbol, shall_fill_range) ==
    [BaseProd EXCEPT !.kind = "NonStructural", !.kids = << symbol >>,
                     !.flag = shall_fill_range]
Lookahead(symbol, node_value) ==
    [BaseProd EXCEPT !.kind = "Lookahead", !.kids = << symbol >>,
                     !.node = node_value]

\* ASTNode (bound is left out: it is the field the two drivers may differ in)
ASTNode(node, start, end, children) ==
    [node |-> node, start |-> start, end |-> end, children |-> children]
ASTLeaf(node, start, end) == ASTNode(node, start, end, << >>)
ASTNull(start) == ASTNode(NullNode, start, start, << >>)

\* ParsedResult: Ok(SuccessData) | Err(ProductionError)
SuccessNew(consumed_index, children) ==
    [kind |-> "Ok", consumed_index |-> consumed_index, children |-> children,
     pos |-> 0, msg |-> ""]
SuccessHidden(consumed_index) == SuccessNew(consumed_index, << >>)
SuccessTree(consumed_index, tree) == SuccessNew(consumed_index, << tree >>)
Unparsed ==
    [kind |-> "Unparsed", consumed_index |-> 0, children |-> << >>,
     pos |-> 0, msg |-> ""]
Validation(pos, msg) ==
    [kind |-> "Validation", consumed_index |-> 0, children |-> << >>,
     pos |-> pos, msg |-> msg]

is_invalid_never(err) == FALSE

is_invalid(err) == err.kind = "Validation"

(***************************************************************************)
(* The Packrat cache (src/cache.rs).  ops and trace are history: ops has   *)
(* one entry per insert / update_index with max_parsed_point before and    *)
(* after it, trace has the calls and returns of the productions.           *)
(***************************************************************************)
CacheRoot ==
    [parsed_result_cache |-> << >>, max_parsed_point |-> 0,
     ops |-> << >>, trace |-> << >>]

CacheOp(op, index, before, after) ==
    [op |-> op, index |-> index, before |-> before, after |-> after]

CacheFind(c, key, index) ==
    IF index <= c.max_parsed_point
       /\ << key, index >> \in DOMAIN c.parsed_result_cache
    THEN [some |-> TRUE, result |-> c.parsed_result_cache[<< key, index >>]]
    ELSE [some |-> FALSE, result |-> Unparsed]

CacheInsertAt(c, key, index, result) ==
    [c EXCEPT !.max_parsed_point = index,
              !.parsed_result_cache = (<< key, index >> :> result) @@ @,
              !.ops = Append(@, CacheOp("insert", index, c.max_parsed_point,
                                        index))]

CacheInsertBare(c, key, index, result) ==
    LET after == Max(index, c.max_parsed_point)
        stored == IF result.kind = "Ok"
                  THEN SuccessHidden(result.consumed_index) ELSE result
    IN  [c EXCEPT !.max_parsed_point = after,
                  !.parsed_result_cache = (<< key, index >> :> stored) @@ @,
                  !.ops = Append(@, CacheOp("insert", index,
                                            c.max_parsed_point, after))]

CacheInsert(c, key, index, result) ==
    LET after == Max(index, c.max_parsed_point)
    IN  [c EXCEPT !.max_parsed_point = after,
                  !.parsed_result_cache = (<< key, index >> :> result) @@ @,
                  !.ops = Append(@, CacheOp("insert", index,
                                            c.max_parsed_point, after))]

CacheUpdateIndex(c, index) ==
    LET after == IF c.max_parsed_point < index THEN index
                 ELSE c.max_parsed_point
    IN  [c EXCEPT !.max_parsed_point = after,
                  !.ops = Append(@, CacheOp("update_index", index,
                                            c.max_parsed_point, after))]

(***************************************************************************)
(* is_nullable, is_nullable_n_hidden and impl_first_set of each production.*)
(***************************************************************************)
RECURSIVE IsNullable(_)
IsNullable(p) ==
    CASE p.kind = "Field" -> FALSE
      [] p.kind = "EOFProd" -> FALSE
      [] p.kind = "NullProd" -> TRUE
      [] p.kind = "Concat" -> \A i \in DOMAIN p.kids : IsNullable(p.kids[i])
      [] p.kind = "Union" -> \E i \in DOMAIN p.kids : IsNullable(p.kids[i])
      [] p.kind = "Suffixes" ->
            /\ IsNullable(p.kids[1])
            /\ \/ p.flag
               \/ \E i \in 2..Len(p.kids) : IsNullable(p.kids[i])
      [] p.kind = "SeparatedList" ->
            IsNullable(p.kids[1]) /\ IsNullable(p.kids[2])
      [] p.kind = "Nullable" -> TRUE
      [] p.kind = "Lookahead" -> FALSE
      [] OTHER -> IsNullable(p.kids[1])   \* List, Node, Validator, Cacheable

\* the first nullable production of a list, 0 if there is none
FirstNullable(prods) ==
    LET nullable == { i \in DOMAIN prods : IsNullable(prods[i]) }
    IN  IF nullable = { } THEN 0
        ELSE CHOOSE i \in nullable : \A j \in nullable : i <= j

RECURSIVE IsNullableNHidden(_)
IsNullableNHidden(p) ==
    CASE p.kind = "Field" -> FALSE
      [] p.kind = "EOFProd" -> FALSE
      [] p.kind = "NullProd" -> FALSE
      [] p.kind = "Concat" ->
            /\ IsNullable(p)
            /\ \A i \in DOMAIN p.kids : IsNullableNHidden(p.kids[i])
      [] p.kind = "Union" ->
            LET i == FirstNullable(p.kids)
            IN  IF i = 0 THEN FALSE ELSE IsNullableNHidden(p.kids[i])
      [] p.kind = "Suffixes" -> p.flag /\ IsNullableNHidden(p.kids[1])
      [] p.kind = "SeparatedList" ->
            IsNullableNHidden(p.kids[1]) /\ IsNullableNHidden(p.kids[2])
      [] p.kind = "Nullable" -> FALSE
      [] p.kind = "Node" -> IsNullable(p) /\ p.node = NoNode
      [] p.kind = "Cacheable" -> TRUE
      [] p.kind = "Lookahead" -> TRUE
      [] p.kind = "NonStructural" -> IsNullable(p.kids[1])
      [] OTHER -> IsNullableNHidden(p.kids[1])   \* List, Validator

RECURSIVE ConcatFirstSet(_, _)
RECURSIVE FirstSet(_)
FirstSet(p) ==
    CASE p.kind = "Field" -> { PTok(p.value) }
      [] p.kind = "EOFProd" -> { EOF }
      [] p.kind = "NullProd" -> { }
      [] p.kind = "Concat" -> ConcatFirstSet(p.kids, 1)
      [] p.kind = "Union" -> UNION { FirstSet(p.kids[i]) : i \in DOMAIN p.kids }
      [] p.kind = "Suffixes" ->
            FirstSet(p.kids[1])
            \cup IF IsNullable(p.kids[1])
                 THEN UNION { FirstSet(p.kids[i]) : i \in 2..Len(p.kids) }
                 ELSE { }
      [] p.kind = "SeparatedList" ->
            FirstSet(p.kids[1])
            \cup IF IsNullable(p.kids[1]) THEN FirstSet(p.kids[2]) ELSE { }
      [] OTHER -> FirstSet(p.kids[1])
ConcatFirstSet(prods, i) ==
    IF i > Len(prods) THEN { }
    ELSE FirstSet(prods[i])
         \cup IF IsNullable(prods[i]) THEN ConcatFirstSet(prods, i + 1)
              ELSE { }

\* Union::obtain_first_set / Suffixes::obtain_suffixes_set: for each token
\* the 0-based indexes of the productions to try, in order.  The loop stops
\* at the first nullable production, which is added to every entry.
RECURSIVE ObtainFirstSet(_, _, _)
ObtainFirstSet(prods, i, children_set) ==
    IF i > Len(prods) THEN children_set
    ELSE LET child_set == FirstSet(prods[i])
             pushed ==
                 [t \in DOMAIN children_set \cup child_set |->
                     LET v == IF t \in DOMAIN children_set
                              THEN children_set[t] ELSE << >>
                     IN  IF t \in child_set THEN Append(v, i - 1) ELSE v]
         IN  IF IsNullable(prods[i])
             THEN [t \in DOMAIN pushed |->
                      IF Last(pushed[t]) # i - 1
                      THEN Append(pushed[t], i - 1) ELSE pushed[t]]
             ELSE ObtainFirstSet(prods, i + 1, pushed)

(***************************************************************************)
(* advance_ptr and advance_fltr_ptr of the productions.  cx is what the    *)
(* driver passes down: the mode ("byte" for the lexer-less parser, "fltr"  *)
(* for the lexer-backed one, "token" below a NonStructural of the          *)
(* lexer-backed one), the code and the TokenStream: the tokens and the     *)
(* 0-based indexes of the structural ones.  An index is a byte position,   *)
(* a FltrPtr or a TokenPtr according to the mode.  An operator returns     *)
(* the ParsedResult and the cache it leaves.                               *)
(***************************************************************************)
\* TokenImpl::is_structural of the tokens of the model: all but the space.
Space == PTok(<< " " >>)
is_structural(token) == token # Space

\* TokenStream::from: the indexes of the structural tokens, in order.
FilteredIndices(segments) ==
    LET S == { j \in 0..(Len(segments) - 1) :
                   is_structural(segments[j + 1].token) }
    IN  [k \in 1..Cardinality(S) |->
            CHOOSE j \in S : Cardinality({ i \in S : i < j }) = k - 1]

Cx(m, c, stream) ==
    [mode |-> m, code |-> c, stream |-> stream,
     filtered |-> FilteredIndices(stream)]

\* TokenStream::get_token_ptr
get_token_ptr(cx, index) == cx.filtered[index + 1]

\* TokenStream::find_filter_ptr: the binary search of the raw index in the
\* filtered stream gives the position of a match or the insertion point;
\* both arms of the match are returned as Ok.
find_filter_ptr(cx, index) ==
    LET matched == \E k \in DOMAIN cx.filtered : cx.filtered[k] = index
        i == Cardinality({ k \in DOMAIN cx.filtered :
                               cx.filtered[k] < index })
    IN  IF matched THEN [ok |-> TRUE, i |-> i]
        ELSE [ok |-> TRUE, i |-> i]

\* token_stream[index], for a FltrPtr and for a TokenPtr
LexAt(cx, index) ==
    IF cx.mode = "fltr" THEN cx.stream[get_token_ptr(cx, index) + 1]
    ELSE cx.stream[index + 1]

\* token_stream.pointer(index) in the lexer-backed mode, index otherwise
Pointer(cx, index) ==
    IF cx.mode = "byte" THEN index ELSE LexAt(cx, index).start

Out(res, c) == [res |-> res, cache |-> c]

\* The entries of the trace: a production is entered at depth d at the byte
\* position `at`; it returns res, having consumed up to the byte position
\* `to` when res is Ok.  prod is the production, mode and index are the
\* mode and the index of the call.
Call(cx, d, p, index) ==
    [ev |-> "call", depth |-> d, kind |-> p.kind, key |-> p.key,
     flag |-> p.flag, prod |-> p, mode |-> cx.mode, index |-> index,
     at |-> Pointer(cx, index), to |-> 0, res |-> Unparsed]
Ret(cx, d, p, index, res) ==
    [ev |-> "ret", depth |-> d, kind |-> p.kind, key |-> p.key,
     flag |-> p.flag, prod |-> p, mode |-> cx.mode, index |-> index,
     at |-> Pointer(cx, index),
     to |-> IF res.kind = "Ok" THEN Pointer(cx, res.consumed_index) ELSE 0,
     res |-> res]

\* TokenField::eat_fltr_ptr
TokenFieldEat(cx, p, index, c) ==
    LET lex == LexAt(cx, index)
    IN  IF PTok(p.value) = lex.token
        THEN Out(IF p.node # NoNode
                 THEN SuccessTree(index + 1,
                                  ASTLeaf(p.node, lex.start, lex.end))
                 ELSE SuccessHidden(index + 1),
                 CacheUpdateIndex(c, lex.end))
        ELSE Out(Unparsed, c)

\* ConstantField::eat_ptr
ConstantFieldEat(cx, p, index, c) ==
    IF StartsWith(SliceFrom(cx.code, index), p.value)
    THEN LET consumed_ptr == index + Len(p.value)
         IN  Out(IF p.node # NoNode
                 THEN SuccessTree(consumed_ptr,
                                  ASTLeaf(p.node, index, consumed_ptr))
                 ELSE SuccessHidden(consumed_ptr),
                 CacheUpdateIndex(c, consumed_ptr))
    ELSE Out(Unparsed, c)

\* EOFProd::advance_fltr_ptr / advance_token_ptr / advance_ptr
EOFAdvance(cx, p, index, c) ==
    IF cx.mode # "byte"
    THEN IF LexAt(cx, index).token = EOF
         THEN LET eof_pointer == Last(cx.stream).end
              IN  Out(IF p.node # NoNode
                      THEN SuccessTree(index, ASTLeaf(p.node, eof_pointer,
                                                      Len(cx.code)))
                      ELSE SuccessHidden(index),
                      CacheUpdateIndex(c, eof_pointer))
         ELSE Out(Unparsed, c)
    ELSE IF Len(cx.code) = index
         THEN Out(IF p.node # NoNode
                  THEN SuccessTree(index, ASTLeaf(p.node, index, index))
                  ELSE SuccessHidden(index),
                  CacheUpdateIndex(c, index))
         ELSE Out(Unparsed, c)

\* NullProd::advance_fltr_ptr / advance_ptr
NullAdvance(cx, p, index, c) ==
    Out(IF p.node # NoNode
        THEN SuccessTree(index, ASTLeaf(p.node, Pointer(cx, index),
                                        Pointer(cx, index)))
        ELSE SuccessHidden(index),
        c)

\* the validation_fn of a Validator
validation_fn(p, children) ==
    IF children # << >> /\ children[1].start >= p.key
    THEN Validation(children[1].start, p.node)
    ELSE SuccessHidden(0)

RECURSIVE Advance(_, _, _, _, _)
RECURSIVE ConcatConsume(_, _, _, _, _, _, _)
RECURSIVE UnionTry(_, _, _, _, _, _, _)
RECURSIVE SuffixesTry(_, _, _, _, _, _, _, _)
RECURSIVE ListLoop(_, _, _, _, _, _)
RECURSIVE SeparatedListLoop(_, _, _, _, _, _)

\* Concat::consume: the loop from symbol i on
ConcatConsume(cx, p, i, moved_ptr, parsed_children, c, d) ==
    IF i > Len(p.kids)
    THEN Out(SuccessNew(moved_ptr, parsed_children), c)
    ELSE LET r == Advance(cx, p.kids[i], moved_ptr, c, d + 1)
         IN  IF r.res.kind # "Ok" THEN r
             ELSE ConcatConsume(cx, p, i + 1, r.res.consumed_index,
                                parsed_children \o r.res.children,
                                r.cache, d)

\* The loop of Union::advance_ptr and of Union::advance_fltr_ptr over the
\* productions order[j..], given by their 0-based indexes.
UnionTry(cx, p, order, j, index, c, d) ==
    IF j > Len(order) THEN Out(Unparsed, c)
    ELSE LET r == Advance(cx, p.kids[order[j] + 1], index, c, d + 1)
         IN  IF r.res.kind = "Ok" THEN r
             ELSE IF is_invalid(r.res) THEN r
             ELSE UnionTry(cx, p, order, j + 1, index, r.cache, d)

UnionAdvancePtr(cx, p, index, c, d) ==
    UnionTry(cx, p, [i \in DOMAIN p.kids |-> i - 1], 1, index, c, d)

\* The entry of the first-set map that Union and Suffixes take at ptr, NoToken
\* if there is none: the entry of the token at ptr; in advance_fltr_ptr,
\* when that token has no entry and the map has non-structural tokens, the
\* entry of the token after the last structural token before ptr, if that
\* token is not structural.
ProductionSetIndex(cx, first_sets, ptr) ==
    LET immediate_lex == LexAt(cx, ptr)
        last_token_ptr == IF ptr > 0 THEN get_token_ptr(cx, ptr - 1) ELSE 0
        current_token_lex == cx.stream[last_token_ptr + 1 + 1]
    IN  IF immediate_lex.token \in DOMAIN first_sets
        THEN immediate_lex.token
        ELSE IF /\ cx.mode = "fltr"
                /\ \E t \in DOMAIN first_sets : ~is_structural(t)
                /\ ~is_structural(current_token_lex.token)
                /\ current_token_lex.token \in DOMAIN first_sets
        THEN current_token_lex.token
        ELSE NoToken

\* The end of Union::advance_fltr_ptr and of Union::advance_token_ptr: r is
\* the result of the productions of the token's entry (listed), if there is
\* one.  When they have all failed, advance_fltr_ptr returns the failure and
\* advance_token_ptr goes on to the nullable results.
UnionNullable(cx, p, index, immediate_lex, listed, r) ==
    IF listed /\ (cx.mode = "fltr" \/ r.res.kind = "Ok" \/ is_invalid(r.res))
    THEN r
    ELSE IF IsNullableNHidden(p)
    THEN Out(SuccessHidden(index), r.cache)
    ELSE IF IsNullable(p)
    THEN Out(SuccessTree(index, ASTNull(immediate_lex.start)), r.cache)
    ELSE Out(Unparsed, r.cache)

\* Union::advance_fltr_ptr and Union::advance_token_ptr
UnionAdvanceFltrPtr(cx, p, fltr_ptr, c, d) ==
    LET immediate_lex == LexAt(cx, fltr_ptr)
        first_sets == ObtainFirstSet(p.kids, 1, << >>)
        production_set_index == ProductionSetIndex(cx, first_sets, fltr_ptr)
        listed == production_set_index # NoToken
    IN  UnionNullable(cx, p, fltr_ptr, immediate_lex, listed,
                      IF listed
                      THEN UnionTry(cx, p, first_sets[production_set_index],
                                    1, fltr_ptr, c, d)
                      ELSE Out(Unparsed, c))

\* The loop of Suffixes::advance_ptr and of Suffixes::advance_fltr_ptr over
\* the suffixes order[j..]; left is the result of the left production.
SuffixesTry(cx, p, order, j, index, left, c, d) ==
    IF j > Len(order)
    THEN Out(IF p.flag THEN left ELSE Unparsed, c)
    ELSE LET r == Advance(cx, p.kids[order[j] + 2], left.consumed_index, c,
                          d + 1)
         IN  IF r.res.kind = "Ok"
             THEN Out(SuccessTree(
                          r.res.consumed_index,
                          ASTNode(p.nodes[order[j] + 1], Pointer(cx, index),
                                  Pointer(cx, r.res.consumed_index),
                                  left.children \o r.res.children)),
                      r.cache)
             ELSE IF is_invalid(r.res) THEN r
             ELSE SuffixesTry(cx, p, order, j + 1, index, left, r.cache, d)

SuffixesAdvancePtr(cx, p, index, c, d) ==
    LET l == Advance(cx, p.kids[1], index, c, d + 1)
    IN  IF l.res.kind # "Ok" THEN l
        ELSE SuffixesTry(cx, p, [i \in 1..(Len(p.kids) - 1) |-> i - 1], 1,
                         index, l.res, l.cache, d)

\* Suffixes::advance_fltr_ptr and Suffixes::advance_token_ptr after the
\* left production, whose result is l.  The suffixes of the entry of the
\* next token are tried; advance_fltr_ptr, when that token has no entry and
\* the set has non-structural tokens, takes the entry of the token after the
\* last structural one.  Without an entry the first nullable suffix gives
\* the node.
SuffixesAfterLeft(cx, p, fltr_ptr, l, d) ==
    LET suffixes == SubSeq(p.kids, 2, Len(p.kids))
        suffix_first_set == ObtainFirstSet(suffixes, 1, << >>)
        moved_ptr == l.res.consumed_index
        immediate_lex == LexAt(cx, moved_ptr)
        production_set_index ==
            ProductionSetIndex(cx, suffix_first_set, moved_ptr)
        null_suffix == FirstNullable(suffixes)
    IN  IF l.res.kind # "Ok" THEN l
        ELSE IF production_set_index # NoToken
        THEN SuffixesTry(cx, p, suffix_first_set[production_set_index], 1,
                         fltr_ptr, l.res, l.cache, d)
        ELSE IF null_suffix # 0
        THEN LET children ==
                     IF ~IsNullableNHidden(suffixes[null_suffix])
                     THEN Append(l.res.children, ASTNull(immediate_lex.start))
                     ELSE l.res.children
             IN  Out(SuccessTree(moved_ptr,
                                 ASTNode(p.nodes[null_suffix],
                                         LexAt(cx, fltr_ptr).start,
                                         immediate_lex.start, children)),
                     l.cache)
        ELSE Out(IF p.flag THEN l.res ELSE Unparsed, l.cache)

SuffixesAdvanceFltrPtr(cx, p, fltr_ptr, c, d) ==
    SuffixesAfterLeft(cx, p, fltr_ptr,
                      Advance(cx, p.kids[1], fltr_ptr, c, d + 1), d)

\* List::consume: the loop after the first repetition
ListLoop(cx, p, moved_ptr, children, c, d) ==
    LET r == Advance(cx, p.kids[1], moved_ptr, c, d + 1)
    IN  IF r.res.kind = "Ok"
        THEN IF moved_ptr = r.res.consumed_index
             THEN Out(SuccessNew(r.res.consumed_index,
                                 children \o r.res.children), r.cache)
             ELSE ListLoop(cx, p, r.res.consumed_index,
                           children \o r.res.children, r.cache, d)
        ELSE IF is_invalid(r.res) THEN r
        ELSE Out(SuccessNew(moved_ptr, children), r.cache)

\* a List::consume that goes on after a first parse that consumed nothing
ListConsumeAgain(cx, p, index, c, d) ==
    LET r == Advance(cx, p.kids[1], index, c, d + 1)
    IN  IF r.res.kind # "Ok" THEN r
        ELSE ListLoop(cx, p, r.res.consumed_index, r.res.children, r.cache, d)

ListConsume(cx, p, index, c, d) ==
    LET r == Advance(cx, p.kids[1], index, c, d + 1)
    IN  IF r.res.kind # "Ok" THEN r
        ELSE IF r.res.consumed_index = index THEN r
        ELSE ListLoop(cx, p, r.res.consumed_index, r.res.children, r.cache, d)

\* SeparatedList::consume, the separator parsed and the production after it
\* failed with Unparsed: the list ends here.
EndAfterSeparatorKept(p, moved_ptr, children, separator_success_data) ==
    SuccessNew(separator_success_data.consumed_index,
               children \o separator_success_data.children)

EndAfterSeparator(p, moved_ptr, children, separator_success_data) ==
    IF p.flag
    THEN SuccessNew(separator_success_data.consumed_index,
                    children \o separator_success_data.children)
    ELSE SuccessNew(moved_ptr, children)

\* SeparatedList::consume: the loop after the first production
SeparatedListLoop(cx, p, moved_ptr, children, c, d) ==
    LET s == Advance(cx, p.kids[2], moved_ptr, c, d + 1)
        n == Advance(cx, p.kids[1], s.res.consumed_index, s.cache, d + 1)
    IN  IF s.res.kind = "Ok"
        THEN IF n.res.kind = "Ok"
             THEN SeparatedListLoop(cx, p, n.res.consumed_index,
                                    children \o s.res.children
                                             \o n.res.children,
                                    n.cache, d)
             ELSE IF is_invalid(n.res) THEN n
             ELSE Out(EndAfterSeparator(p, moved_ptr, children, s.res),
                      n.cache)
        ELSE IF is_invalid(s.res) THEN s
        ELSE Out(SuccessNew(moved_ptr, children), s.cache)

SeparatedListConsume(cx, p, index, c, d) ==
    LET r == Advance(cx, p.kids[1], index, c, d + 1)
    IN  IF r.res.kind # "Ok" THEN r
        ELSE SeparatedListLoop(cx, p, r.res.consumed_index, r.res.children,
                               r.cache, d)

\* Nullable::advance_fltr_ptr / advance_ptr
NullableAdvance(cx, p, index, c, d) ==
    LET r == Advance(cx, p.kids[1], index, c, d + 1)
    IN  IF r.res.kind = "Ok" THEN r
        ELSE IF is_invalid(r.res) THEN r
        ELSE Out(IF p.node # NoNode
                 THEN SuccessTree(index, ASTLeaf(p.node, Pointer(cx, index),
                                                 Pointer(cx, index)))
                 ELSE SuccessHidden(index),
                 r.cache)

\* Node::eat_fltr_ptr / eat_ptr
NodeEat(cx, p, index, c, d) ==
    LET r == Advance(cx, p.kids[1], index, c, d + 1)
    IN  IF r.res.kind # "Ok" THEN r
        ELSE Out(IF p.node # NoNode
                 THEN SuccessTree(r.res.consumed_index,
                                  ASTNode(p.node, Pointer(cx, index),
                                          Pointer(cx, r.res.consumed_index),
                                          r.res.children))
                 ELSE SuccessHidden(r.res.consumed_index),
                 r.cache)

\* Validator::advance_fltr_ptr / advance_ptr
ValidatorAdvance(cx, p, index, c, d) ==
    LET r == Advance(cx, p.kids[1], index, c, d + 1)
        v == validation_fn(p, r.res.children)
    IN  IF r.res.kind # "Ok" THEN r
        ELSE IF v.kind # "Ok" THEN Out(v, r.cache)
        ELSE r

\* Cacheable::advance_fltr_ptr / advance_ptr
CacheableAdvance(cx, p, index, c, d) ==
    LET at == Pointer(cx, index)
        hit == CacheFind(c, p.key, at)
        r == Advance(cx, p.kids[1], index, c, d + 1)
    IN  IF hit.some THEN Out(hit.result, c)
        ELSE Out(r.res, CacheInsert(r.cache, p.key, at, r.res))

\* Lookahead::advance_fltr_ptr / advance_ptr
LookaheadAdvance(cx, p, index, c, d) ==
    LET r == Advance(cx, p.kids[1], index, c, d + 1)
        pointer_ == Pointer(cx, index)
    IN  IF r.res.kind # "Ok" THEN r
        ELSE Out(IF p.node # NoNode
                 THEN SuccessNew(index, << ASTNode(p.node, pointer_, pointer_,
                                                   << >>) >>)
                 ELSE SuccessHidden(index),
                 r.cache)

\* The end of NonStructural::advance_fltr_ptr: parsed_data is the result of
\* the symbol.
NonStructuralFill(cx, p, index, parsed_data) ==
    IF cx.mode # "fltr" \/ parsed_data.res.kind # "Ok" THEN parsed_data
    ELSE IF p.flag
            /\ get_token_ptr(cx, index) # parsed_data.res.consumed_index
    THEN Out(Unparsed, parsed_data.cache)
    ELSE Out(SuccessNew(index, parsed_data.res.children), parsed_data.cache)

\* NonStructural::advance_fltr_ptr, which starts the symbol at the token
\* after the previous structural one, and advance_token_ptr / advance_ptr,
\* which hand the call to the symbol.
NonStructuralAdvance(cx, p, index, c, d) ==
    LET fltr == cx.mode = "fltr"
        start_segment == IF index > 0 THEN get_token_ptr(cx, index - 1)
                         ELSE 0
    IN  NonStructuralFill(cx, p, index,
                          Advance(IF fltr THEN [cx EXCEPT !.mode = "token"]
                                  ELSE cx, p.kids[1],
                                  IF fltr THEN start_segment + 1 ELSE index,
                                  c, d + 1))

Advance(cx, p, index, c, d) ==
    LET c0 == [c EXCEPT !.trace = Append(@, Call(cx, d, p, index))]
        r == CASE p.kind = "Field" ->
                     IF cx.mode # "byte" THEN TokenFieldEat(cx, p, index, c0)
                     ELSE ConstantFieldEat(cx, p, index, c0)
               [] p.kind = "EOFProd" -> EOFAdvance(cx, p, index, c0)
               [] p.kind = "NullProd" -> NullAdvance(cx, p, index, c0)
               [] p.kind = "Concat" ->
                     ConcatConsume(cx, p, 1, index, << >>, c0, d)
               [] p.kind = "Union" ->
                     IF cx.mode # "byte"
                     THEN UnionAdvanceFltrPtr(cx, p, index, c0, d)
                     ELSE UnionAdvancePtr(cx, p, index, c0, d)
               [] p.kind = "Suffixes" ->
                     IF cx.mode # "byte"
                     THEN SuffixesAdvanceFltrPtr(cx, p, index, c0, d)
                     ELSE SuffixesAdvancePtr(cx, p, index, c0, d)
               [] p.kind = "List" -> ListConsume(cx, p, index, c0, d)
               [] p.kind = "SeparatedList" ->
                     SeparatedListConsume(cx, p, index, c0, d)
               [] p.kind = "Nullable" -> NullableAdvance(cx, p, index, c0, d)
               [] p.kind = "Node" -> NodeEat(cx, p, index, c0, d)
               [] p.kind = "Validator" ->
                     ValidatorAdvance(cx, p, index, c0, d)
               [] p.kind = "Cacheable" ->
                     CacheableAdvance(cx, p, index, c0, d)
               [] p.kind = "Lookahead" ->
                     LookaheadAdvance(cx, p, index, c0, d)
               [] p.kind = "NonStructural" ->
                     NonStructuralAdvance(cx, p, index, c0, d)
    IN  Out(r.res,
            [r.cache EXCEPT !.trace = Append(@, Ret(cx, d, p, index, r.res))])

(***************************************************************************)
(* The drivers (src/parsing.rs).  A behaviour of SpecParse takes one       *)
(* grammar and one input, runs LexerlessParser::parse on them and, once    *)
(* DefaultParser::tokenize has ended, DefaultParser::parse_stream.  The    *)
(* message of the ParseError is left out.                                  *)
(***************************************************************************)
\* ParseError: its pointer and what its message reports: the end of the file,
\* the text of a token or of a byte, or the message of a validation error.
ParseError(at, eof, text, msg) ==
    [pointer |-> at, eof |-> eof, text |-> text, msg |-> msg]

NoParseError == ParseError(0, FALSE, << >>, "")

\* Cache<usize, _>::create_error
CreateErrorByte(c, cd, err) ==
    IF err.kind = "Unparsed"
    THEN IF c.max_parsed_point = Len(cd)
         THEN ParseError(c.max_parsed_point, TRUE, << >>, "")
         ELSE LET failed_index == c.max_parsed_point
              IN  ParseError(failed_index, FALSE,
                             SubSeq(cd, failed_index + 1, failed_index + 1),
                             "")
    ELSE ParseError(err.pos, FALSE, << >>, err.msg)

\* TokenStream::filtered_index_at: the binary search of the structural
\* tokens by their start (no two of them start at the same byte in the
\* streams of ParseTokenizer).  Ok(s) is found = TRUE, Err(s) is FALSE.
filtered_index_at(cx, code_pointer) ==
    LET n == Len(cx.filtered)
        start(k) == cx.stream[cx.filtered[k + 1] + 1].start
        hits == { k \in 0..(n - 1) : start(k) = code_pointer }
    IN  IF hits # {}
        THEN [found |-> TRUE, s |-> CHOOSE k \in hits : TRUE]
        ELSE [found |-> FALSE,
              s |-> Cardinality({ k \in 0..(n - 1) : start(k) < code_pointer })]

\* a create_error that points every error at max_parsed_point
CreateErrorAtMax(c, cx, err) ==
    ParseError(c.max_parsed_point, FALSE, << >>, err.msg)

\* Cache<FltrPtr, _>::create_error
CreateError(c, cx, err) ==
    IF err.kind = "Unparsed"
    THEN LET at == filtered_index_at(cx, c.max_parsed_point)
             failed_index == IF at.found THEN at.s + 1 ELSE at.s
         IN  IF failed_index < Len(cx.filtered)
             THEN LET lex_data == cx.stream[cx.filtered[failed_index + 1] + 1]
                  IN  IF lex_data.token = EOF
                      THEN ParseError(lex_data.start, TRUE, << >>, "")
                      ELSE ParseError(lex_data.start, FALSE,
                                      SubSeq(cx.code, lex_data.start + 1,
                                             lex_data.end), "")
             ELSE ParseError(Len(cx.code), TRUE, << >>, "")
    ELSE ParseError(err.pos, FALSE, << >>, err.msg)

NotParsed ==
    [state |-> "idle", ok |-> FALSE, children |-> << >>, err |-> "",
     error |-> NoParseError]
Parsed(r, e) ==
    [state |-> "done", ok |-> r.kind = "Ok", children |-> r.children,
     err |-> IF r.kind = "Ok" THEN "" ELSE r.kind,
     error |-> IF r.kind = "Ok" THEN NoParseError ELSE e]

\* the match on the result of the root in LexerlessParser::parse and in
\* DefaultParser::parse_stream
ParseResult(cd, r) == Parsed(r.res, CreateErrorByte(r.cache, cd, r.res))
ParseStreamResult(cx, r) == Parsed(r.res, CreateError(r.cache, cx, r.res))

\* LexerlessParser::parse
LexerlessParse ==
    /\ mode = "parse"
    /\ byteResult.state = "idle"
    /\ LET r == Advance(Cx("byte", code, << >>), root, 0, CacheRoot, 0)
       IN  /\ byteResult' = ParseResult(code, r)
           /\ cache' = r.cache
    /\ UNCHANGED << mode, code, root, fcache, fltrResult, findResult, sepList,
                    tkVars,
                    punctVars, valVars >>

\* DefaultParser::parse after its call of tokenize: the error of tokenize,
\* or parse_stream on the tokens.
DefaultParse ==
    /\ mode = "parse"
    /\ fltrResult.state = "idle"
    /\ tkStatus \in { "ok", "err" }
    /\ IF tkStatus = "err"
       THEN /\ fltrResult' = [state |-> "done", ok |-> FALSE,
                              children |-> << >>, err |-> "Tokenize",
                              error |-> ParseError(pointer, FALSE, << >>,
                                                   "Failed to tokenize code")]
            /\ UNCHANGED fcache
       ELSE LET cx == Cx("fltr", code, tokenized_stream)
                r == Advance(cx, root, 0, CacheRoot, 0)
            IN  /\ fltrResult' = ParseStreamResult(cx, r)
                /\ fcache' = r.cache
    /\ UNCHANGED << mode, code, root, cache, byteResult, findResult, sepList,
                    tkVars,
                    punctVars, valVars >>

\* The grammars.  Their terminals are the bytes of ParseBytes, and the
\* tokenizer gives each of these bytes its token.
ParseBytes == { "a", "+" }
ParseCodes == SeqsUpTo(ParseBytes, MaxCodeLen)
ParseTokenizer ==
    Tokenizer(<< Punctuations(FieldsOf({ << b >> : b \in ParseBytes }
                                       \cup { << " " >> })) >>)

A == Field(<< "a" >>, "A")
Plus == Field(<< "+" >>, NoNode)
Terminals == { A, Plus, EOFProd(NoNode), NullProdNew, NullProdHidden }

\* the wrappers of a production; k is the key of its Cacheable
Wrappers(x, k) ==
    { NullableHidden(x), NullableNew(x), List(x),
      SeparatedList(x, Plus, TRUE), SeparatedList(x, Plus, FALSE),
      Node(x, "X"), Validator(x, 0, "never"), Validator(x, 1, "once"),
      Cacheable(k, x) }

Operands ==
    Terminals
    \cup { NullableHidden(A), NullableNew(A), List(A),
           SeparatedList(A, Plus, FALSE), Node(NullProdHidden, NoNode),
           Validator(A, 0, "never"), Validator(A, 1, "once"),
           Validator(Plus, 0, "plus"), Cacheable(1, A) }

Combined ==
    { Concat(<< x, y >>) : x \in Operands, y \in Operands }
    \cup { Union(<< x, y >>) : x \in Operands, y \in Operands }
    \cup { Suffixes(x, s, << << y, "S" >> >>) :
              x \in Operands, y \in Operands, s \in BOOLEAN }
    \cup UNION { Wrappers(x, 2) : x \in Operands }

\* Grammars of the documentation and of the tests, cut to the terminals of
\* the model.
Examples ==
    { Concat(<< SeparatedList(A, Plus, FALSE), EOFProd(NoNode) >>),
      Concat(<< SeparatedList(A, Plus, TRUE), EOFProd(NoNode) >>),
      Union(<< Concat(<< Cacheable(1, A), Plus >>),
               Concat(<< Cacheable(1, A), A >>) >>),
      Union(<< Concat(<< Cacheable(1, Plus), Plus >>),
               Concat(<< Cacheable(1, Plus), A >>) >>),
      List(Union(<< A, Validator(Plus, 0, "plus") >>)),
      SeparatedList(Validator(A, 1, "once"), Plus, TRUE),
      Suffixes(A, TRUE, << << Validator(Plus, 0, "plus"), "S" >>,
                           << Plus, "T" >> >>),
      Suffixes(A, FALSE, << << Plus, "S" >>, << NullProdHidden, "T" >> >>),
      Union(<< NullableHidden(Plus) >>),
      Union(<< Plus, Node(NullProdNew, "X") >>),
      Union(<< Plus, Validator(A, 0, "never"), A >>),
      Lookahead(A, "L"),
      Concat(<< Lookahead(A, "L"), A, EOFProd(NoNode) >>),
      Concat(<< Lookahead(A, NoNode), List(Union(<< A, Plus >>)) >>),
      Concat(<< List(A), Lookahead(Plus, "L"), Plus >>),
      Union(<< Lookahead(Plus, "L"), A >>),
      List(Concat(<< Lookahead(A, NoNode), A >>)),
      Node(Concat(<< List(Node(Concat(<< A, Plus >>), "X")),
                     EOFProd(NoNode) >>), "R") }

ParseGrammars == Combined \cup Examples

\* Grammars with non-structural tokens: W is the terminal of the space.
\* Their inputs are made of "a" and " ".
W == Field(<< " " >>, "W")
SpacedGrammars ==
    { Concat(<< List(Concat(<< A, NonStructural(NullableHidden(List(W)),
                                                 TRUE) >>)),
                EOFProd(NoNode) >>),
      Concat(<< NonStructural(NullableHidden(W), FALSE), List(A) >>),
      Concat(<< A, NonStructural(W, TRUE), A >>),
      Concat(<< A, NonStructural(W, FALSE), A >>),
      Concat(<< A, NonStructural(NullableHidden(W), FALSE),
                NullableHidden(Plus),
                NonStructural(NullableHidden(W), FALSE), A >>),
      Node(List(Union(<< A, NonStructural(Union(<< W, NullProdHidden >>),
                                          FALSE) >>)), "R"),
      Suffixes(A, TRUE, << << NonStructural(W, FALSE), "S" >> >>),
      Suffixes(A, TRUE, << << NonStructural(NullableHidden(W), TRUE),
                              "S" >> >>) }
SpacedCodes == SeqsUpTo({ "a", " " }, MaxCodeLen)

InitParse ==
    /\ mode = "parse"
    /\ \/ code \in ParseCodes /\ root \in ParseGrammars
       \/ code \in SpacedCodes /\ root \in SpacedGrammars
    /\ cache = CacheRoot
    /\ fcache = CacheRoot
    /\ byteResult = NotParsed
    /\ fltrResult = NotParsed
    /\ findResult = NoFind
    /\ sepList = 0
    /\ tokenizer = ParseTokenizer
    /\ pointer = 0
    /\ tokenized_stream = << >>
    /\ state_stack = << >>
    /\ current_state = 0
    /\ tkStatus = "idle"
    /\ lastStep = NoStep
    /\ IdlePunct /\ IdleVal

NextParse == TokenizeBegin \/ TokenizeLoop \/ LexerlessParse \/ DefaultParse

SpecParse == InitParse /\ [][NextParse]_vars

(***************************************************************************)
(* TokenStream::find_filter_ptr on its own: the stream of a tokenized      *)
(* input, asked for the filtered index of any raw index.                   *)
(***************************************************************************)
StreamCodes == SeqsUpTo(ParseBytes \cup { " " }, MaxCodeLen)

InitStream ==
    /\ mode = "stream"
    /\ code \in StreamCodes
    /\ tokenizer = ParseTokenizer
    /\ pointer = 0
    /\ tokenized_stream = << >>
    /\ state_stack = << >>
    /\ current_state = 0
    /\ tkStatus = "idle"
    /\ lastStep = NoStep
    /\ IdlePunct /\ IdleVal /\ IdleParse

\* TokenStream::from(&tokenized_stream).find_filter_ptr(TokenPtr(index))
FindFilterPtr(index) ==
    /\ mode = "stream"
    /\ tkStatus = "ok"
    /\ LET r == find_filter_ptr(Cx("fltr", code, tokenized_stream), index)
       IN  findResult' = [called |-> TRUE, index |-> index, ok |-> r.ok,
                          i |-> r.i]
    /\ UNCHANGED << mode, code, tkVars, punctVars, valVars, root, cache,
                    fcache, byteResult, fltrResult, sepList >>

NextStream ==
    \/ TokenizeBegin
    \/ TokenizeLoop
    \/ \E index \in 0..MaxTokens : FindFilterPtr(index)

SpecStream == InitStream /\ [][NextStream]_vars

(***************************************************************************)
(* SeparatedList::consume on its own, one iteration of its loop at a time, *)
(* as LexerlessParser::parse runs it on a root that is a SeparatedList.    *)
(* state is "start" before the first parse_production, "loop" at the head  *)
(* of the loop and "done" once consume has returned `res`.  The cache is   *)
(* kept without its history.  `repeats` is history: the last iteration has *)
(* left moved_ptr, children and the cache as they were.                    *)
(***************************************************************************)
SepListLocals(state, moved_ptr, children, res) ==
    [state |-> state, moved_ptr |-> moved_ptr, children |-> children,
     res |-> res, repeats |-> FALSE]

Forget(c) == [c EXCEPT !.ops = << >>, !.trace = << >>]

SepLists ==
    { SeparatedList(x, y, inclusive) :
          x \in { A, NullableHidden(A), List(A), Cacheable(1, NullProdHidden) },
          y \in { Plus, NullableHidden(Plus), NullProdHidden },
          inclusive \in BOOLEAN }

InitSepList ==
    /\ mode = "seplist"
    /\ code \in ParseCodes
    /\ root \in SepLists
    /\ cache = CacheRoot
    /\ sepList = SepListLocals("start", 0, << >>, Unparsed)
    /\ fcache = 0
    /\ byteResult = 0
    /\ fltrResult = 0
    /\ findResult = NoFind
    /\ IdleTk /\ IdlePunct /\ IdleVal

\* let success_data = parse_production(index, cache)?;
SepListFirst(r) ==
    /\ cache' = Forget(r.cache)
    /\ sepList' = IF r.res.kind = "Ok"
                  THEN SepListLocals("loop", r.res.consumed_index,
                                     r.res.children, Unparsed)
                  ELSE SepListLocals("done", 0, << >>, r.res)

SepListBegin ==
    /\ mode = "seplist"
    /\ sepList.state = "start"
    /\ SepListFirst(Advance(Cx("byte", code, << >>), root.kids[1], 0, cache,
                            1))
    /\ UNCHANGED << mode, code, root, fcache, byteResult, fltrResult,
                    findResult, tkVars, punctVars, valVars >>

\* the arm Ok(separator_success_data) of the loop
SepListProduction(s, n) ==
    /\ cache' = Forget(n.cache)
    /\ sepList' =
           IF n.res.kind = "Ok"
           THEN [SepListLocals("loop", n.res.consumed_index,
                               sepList.children \o s.res.children
                                                \o n.res.children,
                               Unparsed)
                 EXCEPT !.repeats =
                     /\ n.res.consumed_index = sepList.moved_ptr
                     /\ s.res.children \o n.res.children = << >>
                     /\ Forget(n.cache) = cache]
           ELSE IF is_invalid(n.res)
           THEN SepListLocals("done", 0, << >>, n.res)
           ELSE SepListLocals("done", 0, << >>,
                              EndAfterSeparator(root, sepList.moved_ptr,
                                                sepList.children, s.res))

\* match parse_separator(moved_ptr, cache)
SepListSeparator(s) ==
    IF s.res.kind = "Ok"
    THEN SepListProduction(s, Advance(Cx("byte", code, << >>), root.kids[1],
                                      s.res.consumed_index, s.cache, 1))
    ELSE /\ cache' = Forget(s.cache)
         /\ sepList' = SepListLocals("done", 0, << >>,
                                     IF is_invalid(s.res) THEN s.res
                                     ELSE SuccessNew(sepList.moved_ptr,
                                                     sepList.children))

\* one iteration of the loop
SepListIterate ==
    /\ mode = "seplist"
    /\ sepList.state = "loop"
    /\ SepListSeparator(Advance(Cx("byte", code, << >>), root.kids[2],
                                sepList.moved_ptr, cache, 1))
    /\ UNCHANGED << mode, code, root, fcache, byteResult, fltrResult,
                    findResult, tkVars, punctVars, valVars >>

NextSepList == SepListBegin \/ SepListIterate

\* The program runs on until it returns: the loop is never suspended.
SpecSepList == InitSepList /\ [][NextSepList]_vars /\ WF_vars(NextSepList)

(***************************************************************************)
(* Properties of the parsing engine.                                       *)
(***************************************************************************)
\* the traces and the cache operations of the two drivers
Traces == { cache.trace, fcache.trace }
CacheOps == { cache.ops, fcache.ops }

\* the call of the production that made the call or got the return t[i]
ParentCall(t, i) ==
    LET above == { j \in 1..(i - 1) :
                      t[j].ev = "call" /\ t[j].depth = t[i].depth - 1 }
    IN  CHOOSE j \in above : \A k \in above : k <= j

\* the call a return t[i] answers
OwnCall(t, i) ==
    LET same == { j \in 1..(i - 1) :
                     t[j].ev = "call" /\ t[j].depth = t[i].depth }
    IN  CHOOSE j \in same : \A k \in same : k <= j

Propagating == { "Union", "Suffixes", "List", "SeparatedList", "Nullable" }

\* t[i] is a Validation error returned to a production of kind k
ValidationReturnedTo(t, i, k) ==
    /\ t[i].ev = "ret"
    /\ t[i].res.kind = "Validation"
    /\ t[i].depth > 0
    /\ t[ParentCall(t, i)].kind = k

\* C3: when a child of a Union, Suffixes, List, SeparatedList or Nullable
\* returns a Validation error, the next thing that happens is that the
\* production returns that same error: it makes no further call and does
\* not turn the error into a success.
C3_ValidationPropagates ==
    \A t \in Traces : \A i \in DOMAIN t : \A k \in Propagating :
        ValidationReturnedTo(t, i, k) =>
            /\ i < Len(t)
            /\ t[i + 1].ev = "ret"
            /\ t[i + 1].depth = t[i].depth - 1
            /\ t[i + 1].res = t[i].res

\* A List gets a Validation error from a repetition after its first one and
\* has returned.
C3_Witness ==
    /\ byteResult.state = "done"
    /\ \E i \in DOMAIN cache.trace :
          /\ ValidationReturnedTo(cache.trace, i, "List")
          /\ cache.trace[i].at > cache.trace[ParentCall(cache.trace, i)].at

\* t[i] and t[j] are the returns of two invocations of one Cacheable at one
\* byte position
SameInvocation(t, i, j) ==
    /\ i < j
    /\ t[i].ev = "ret" /\ t[j].ev = "ret"
    /\ t[i].kind = "Cacheable" /\ t[j].kind = "Cacheable"
    /\ t[i].key = t[j].key
    /\ t[i].at = t[j].at

\* C5: within one parse, two invocations of a Cacheable production at the
\* same byte position return equal results: the same consumed position and
\* children, or the same error.
C5_SameResultAgain ==
    \A t \in Traces : \A i, j \in DOMAIN t :
        SameInvocation(t, i, j) => t[i].res = t[j].res

\* A Cacheable that succeeded with a child is invoked again at the same
\* position and answers from the cache.
C5_Witness ==
    \E i, j \in DOMAIN fcache.trace :
        /\ SameInvocation(fcache.trace, i, j)
        /\ fcache.trace[i].res.kind = "Ok"
        /\ fcache.trace[i].res.children # << >>
        /\ fcache.trace[j - 1].ev = "call"

\* C6: on every grammar and input the two drivers both fail, or both
\* succeed with the same trees (tags, spans and order of the children).
C6_DriversAgree ==
    (byteResult.state = "done" /\ fltrResult.state = "done") =>
        /\ byteResult.ok = fltrResult.ok
        /\ byteResult.ok => byteResult.children = fltrResult.children

\* Union [Nullable::hidden(+)] on "a": the tokens are found, the lexer-less
\* driver gives no tree and the lexer-backed driver gives a null leaf.
C6_UnionDiverges ==
    /\ root = Union(<< NullableHidden(Plus) >>)
    /\ code = << "a" >>
    /\ tkStatus = "ok"
    /\ byteResult = Parsed(SuccessHidden(0), NoParseError)
    /\ fltrResult = Parsed(SuccessTree(0, ASTNull(0)), NoParseError)

\* the calls a production made between its call t[from] and its return t[i]
CallsMade(t, from, i) ==
    { j \in from..i : t[j].ev = "call" /\ t[j].depth = t[i].depth + 1 }

\* t[i] is the return of a non-inclusive SeparatedList whose last separator
\* parsed and whose production after that separator failed with Unparsed;
\* s is the return of that separator.  The calls of a SeparatedList are
\* production, separator, production, ..: the production after a separator
\* is an odd call, the third at least.
TrailingSeparator(t, i, s) ==
    /\ i > 1 /\ s > 1
    /\ t[i].ev = "ret" /\ t[i].kind = "SeparatedList" /\ ~t[i].flag
    /\ t[i - 1].ev = "ret" /\ t[i - 1].depth = t[i].depth + 1
    /\ t[i - 1].res.kind = "Unparsed"
    /\ LET n == Cardinality(CallsMade(t, OwnCall(t, i), i))
       IN  n >= 3 /\ n % 2 = 1
    /\ s = OwnCall(t, i - 1) - 1
    /\ t[s].ev = "ret" /\ t[s].depth = t[i].depth + 1
    /\ t[s].res.kind = "Ok"

\* C9 as stated: a non-inclusive SeparatedList fails when a separator parses
\* and the production after it fails softly.
C9_TrailingSeparatorFails ==
    \A t \in Traces : \A i, s \in DOMAIN t :
        TrailingSeparator(t, i, s) => t[i].res.kind # "Ok"

\* C9: a non-inclusive SeparatedList whose separator parses and whose
\* production after it fails softly succeeds, and ends where that separator
\* began.
C9_TrailingSeparatorLeft ==
    \A t \in Traces : \A i, s \in DOMAIN t :
        TrailingSeparator(t, i, s) =>
            /\ t[i].res.kind = "Ok"
            /\ t[i].to = t[s].at

\* "a+" read by SeparatedList(a, +, inclusive = false)
C9_Witness ==
    /\ root = SeparatedList(A, Plus, FALSE)
    /\ code = << "a", "+" >>
    /\ \E i, s \in DOMAIN cache.trace : TrailingSeparator(cache.trace, i, s)
    /\ byteResult.ok
    /\ byteResult.children = << ASTLeaf("A", 0, 1) >>

\* C10: every insert and every update_index leaves max_parsed_point greater
\* than or equal to what it was, and max_parsed_point changes in no other
\* way.
C10_MaxParsedPointMonotone ==
    \A c \in { cache, fcache } :
        /\ \A i \in DOMAIN c.ops : c.ops[i].after >= c.ops[i].before
        /\ \A i \in DOMAIN c.ops :
              c.ops[i].before = IF i = 1 THEN 0 ELSE c.ops[i - 1].after
        /\ c.max_parsed_point =
              IF c.ops = << >> THEN 0 ELSE Last(c.ops).after

\* An insert at an index below max_parsed_point, after an update_index
\* that raised it.
C10_Witness ==
    \E i, j \in DOMAIN cache.ops :
        /\ i < j
        /\ cache.ops[i].op = "update_index"
        /\ cache.ops[i].after > cache.ops[i].before
        /\ cache.ops[j].op = "insert"
        /\ cache.ops[j].index < cache.ops[j].before

(***************************************************************************)
(* Properties of the lexemes inside the tokenizer loop.                    *)
(***************************************************************************)
\* The lexeme whose token the last iteration of the loop accepted.
MatchedBy == tokenizer.analyzers[lastStep.state][lastStep.by]

\* The longest value of a Constants lexeme that is a prefix of the input
\* left at `at`, as a token.
LongestConstant(lx, c, at) ==
    LET M == { k \in 1..Len(lx.values) :
                   at <= Len(c) /\ StartsWith(SliceFrom(c, at), lx.values[k][1]) }
    IN  IF M = {} THEN NoLex
        ELSE LET k == CHOOSE x \in M :
                          \A y \in M : Len(lx.values[y][1]) <= Len(lx.values[x][1])
             IN  Lex(lx.values[k][2], at, at + Len(lx.values[k][1]))

\* C16: a token returned by Constants is the token of the longest of its
\* values that is a prefix of the input at the cursor, ending at the cursor
\* plus the length of that value; without such a value there is no token.
C16_ConstantsLongestMatch ==
    (lastStep.matched /\ MatchedBy.kind = "Constants") =>
        Appended = LongestConstant(MatchedBy, code, lastStep.start)

\* The call of C16's failing input: Constants returned the token of "++"
\* at a cursor where the input has none of its values.
C16_ConstantsWithoutMatch ==
    /\ lastStep.matched
    /\ MatchedBy.kind = "Constants"
    /\ code = << "a" >>
    /\ lastStep.start = 0
    /\ Appended = Lex(PTok(<< "+", "+" >>), 0, 2)
    /\ ~LongestConstant(MatchedBy, code, 0).some

\* The state actions of the last iteration that were a Pop performed on an
\* empty state stack.
PopsOnEmpty ==
    { k \in 1..Len(lastStep.acts) :
          /\ lastStep.acts[k].action.type = "Pop"
          /\ lastStep.acts[k].stack = << >> }

\* C18: an iteration of the loop in which a Pop was performed on an empty
\* state stack ends in a panic: no token is accepted, no ParseError is
\* returned, the loop does not go on, and no state action follows the Pop.
C18_PopOnEmptyPanics ==
    PopsOnEmpty /= {} =>
        /\ tkStatus = "panic"
        /\ ~lastStep.matched
        /\ PopsOnEmpty = { Len(lastStep.acts) }

\* A Pop on the empty stack of a tokenizer that had accepted a token before.
C18_Witness ==
    /\ PopsOnEmpty /= {}
    /\ tkStatus = "panic"
    /\ Len(tokenized_stream) > 0
    /\ state_stack = << >>

\* The state whose lexeme list serves a state stack: its top, or the default
\* state when it is empty.
StateOf(stack) ==
    IF Len(stack) = 0 THEN tokenizer.default_state ELSE Last(stack)

\* C19: in the multi-state tokenizer the token accepted by an iteration was
\* matched by a lexeme of the list registered for the state on top of the
\* state stack at the moment that lexeme was called (the default state for
\* an empty stack).
C19_ListOfStackTop ==
    (tokenizer.combined /\ lastStep.matched) =>
        lastStep.state = StateOf(lastStep.at)

\* The iteration of C19's failing input: the first lexeme of state 0 pushed
\* state 1 and discarded its token, and the token was then matched by the
\* second lexeme of state 0 while state 1 was on top of the stack.
C19_MatchedByStaleList ==
    /\ tokenizer.combined
    /\ lastStep.matched
    /\ lastStep.state = 0
    /\ lastStep.by = 2
    /\ lastStep.at = << 1 >>
    /\ code = << "/", "a" >>
    /\ Appended = Lex(RegexLiteral, 0, 2)

\* The list of an iteration is the one of the state the stack had when the
\* iteration began.
C19_ListOfStackAtStart ==
    (tokenizer.combined /\ lastStep.matched) =>
        lastStep.state = StateOf(lastStep.stack)

\* The token stream the last iteration of the loop began with.
StreamBefore ==
    SubSeq(tokenized_stream, 1,
           Len(tokenized_stream) - (IF tkStatus = "ok" THEN 2 ELSE 1))

\* What the lexeme wrapped by the lexeme of the accepted token returned.
InnerResult ==
    LexemeConsume(MatchedBy.inner[1], code, lastStep.start, StreamBefore,
                  lastStep.at)

\* C20: a token accepted from a Mapper or a ThunkMapper has the start and
\* the end of the token its inner lexeme returned.
C20_MapperKeepsSpan ==
    (lastStep.matched /\ MatchedBy.kind \in { "Mapper", "ThunkMapper" }) =>
        /\ InnerResult.res.some
        /\ Appended.start = InnerResult.res.start
        /\ Appended.end = InnerResult.res.end

\* A token whose tag a Mapper replaced.
C20_Witness ==
    /\ lastStep.matched
    /\ MatchedBy.kind = "Mapper"
    /\ InnerResult.res.some
    /\ Appended.token /= InnerResult.res.token
    /\ Appended.end > Appended.start

(***************************************************************************)
(* Properties of the symbol cells of the non-terminals.                    *)
(***************************************************************************)
\* The non-terminals reachable from the root that were created with init
\* and never had their symbols set.
UnsetReachable(G) ==
    { p \in KidClosure(G, { "R" }) : ~G.prods[p].set }

\* C12: constructing a parser over a grammar in which a non-terminal
\* reachable from the root never had its symbols set fails with an
\* ImplementationError.
C12_UnsetSymbolsRejected ==
    (valResult.state = "done" /\ UnsetReachable(grammar) /= {}) =>
        valResult.err \in { "InitializationError", "LeftRecursion.",
                            "LeftRecursive", "StackOverflow" }

\* The construction of C12's failing input: the parser is built although the
\* Concat N2, a symbol of the root's Concat N1, has no symbols.
C12_UnsetSymbolsAccepted ==
    /\ valResult.state = "done"
    /\ valResult.err = ""
    /\ grammar.prods["R"] = Prod("Node", << "N1" >>)
    /\ grammar.prods["N1"] = Prod("Concat", << "A", "N2" >>)
    /\ grammar.prods["N2"] = Unset("Concat")

\* C17: a set_symbols called on a non-terminal of the grammar after the
\* parser was constructed (the validation passed) returns an error, and the
\* grammar is what it was before the call.
C17_SetAfterValidationFails ==
    setResult.called =>
        /\ setResult.err /= ""
        /\ grammar.prods = setResult.before

\* The call of C17's failing input: set_symbols on the Concat N2, reachable
\* from the root of the constructed parser, returned Ok and N2 has symbols
\* it did not have when the grammar was validated.
C17_SetAfterValidationAccepted ==
    /\ setResult.called
    /\ setResult.id = "N2"
    /\ setResult.err = ""
    /\ "N2" \in KidClosure([prods |-> setResult.before], { "R" })
    /\ ~setResult.before["N2"].set
    /\ grammar.prods["N2"] = Prod("Concat", << "A" >>)
    /\ grammar.prods /= setResult.before

\* set_symbols fails on a non-terminal whose symbols are set.
C17_SetTwiceFails ==
    (setResult.called /\ setResult.before[setResult.id].set) =>
        /\ setResult.err /= ""
        /\ grammar.prods = setResult.before

\* The returns of the trace t that are a success at the position the
\* production was given.
ZeroWidthReturns(t) ==
    { i \in 1..Len(t) :
          t[i].ev = "ret" /\ t[i].res.kind = "Ok" /\ t[i].to = t[i].at }

\* C13 (the direction from behaviour to declaration): a production that has
\* succeeded returning the position it was given is one whose is_nullable
\* is true.
C13_ZeroWidthIsNullable ==
    \A t \in Traces : \A i \in ZeroWidthReturns(t) : IsNullable(t[i].prod)

\* The returns of C13's failing inputs: EOFProd at the end of the input and
\* a Lookahead whose symbol matched have succeeded without moving, in the
\* lexer-backed driver, and is_nullable is false for both.
C13_ZeroWidthNotNullable ==
    /\ \E i \in ZeroWidthReturns(fcache.trace) :
           /\ fcache.trace[i].prod.kind = "EOFProd"
           /\ ~IsNullable(fcache.trace[i].prod)
    /\ \E i \in ZeroWidthReturns(fcache.trace) :
           /\ fcache.trace[i].prod.kind = "Lookahead"
           /\ ~IsNullable(fcache.trace[i].prod)

\* NullProd::hidden(), and Nullable::hidden of a terminal.
HiddenNullable(p) ==
    \/ p.kind = "NullProd" /\ p.node = NoNode
    \/ p.kind = "Nullable" /\ p.node = NoNode /\ p.kids[1].kind = "Field"

\* The productions q[from..] are terminals and hidden nullable productions,
\* so that a success of one of them that consumes nothing is the success of
\* a hidden nullable one.
OnlyHiddenNullables(q, from) ==
    \A k \in from..Len(q) : q[k].kind = "Field" \/ HiddenNullable(q[k])

\* The return of the left production of the Suffixes that returned t[i].
LeftReturn(t, i) ==
    LET rets == { j \in (OwnCall(t, i) + 1)..(i - 1) :
                      t[j].ev = "ret" /\ t[j].depth = t[i].depth + 1 }
    IN  CHOOSE j \in rets : \A k \in rets : j <= k

\* C14: a hidden nullable production that succeeds consuming nothing adds
\* no child: its own result has none; a Union that succeeded without
\* consuming through such an alternative returns no child; the node of a
\* Suffixes whose tail was such a production, consuming nothing, has the
\* children of the left production and no other.
C14_HiddenNullableAddsNothing ==
    \A t \in Traces :
        \A i \in { j \in 1..Len(t) : t[j].ev = "ret" /\ t[j].res.kind = "Ok" } :
        LET e == t[i]
        IN  /\ (HiddenNullable(e.prod) /\ e.to = e.at) =>
                   e.res.children = << >>
            /\ (/\ e.kind = "Union"
                /\ e.to = e.at
                /\ OnlyHiddenNullables(e.prod.kids, 1)) =>
                   e.res.children = << >>
            /\ (/\ e.kind = "Suffixes"
                /\ OnlyHiddenNullables(e.prod.kids, 2)
                /\ e.to = t[LeftReturn(t, i)].to
                /\ e.res /= t[LeftReturn(t, i)].res) =>
                   e.res.children[1].children =
                       t[LeftReturn(t, i)].res.children

\* The return of C14's failing input: the node of a Suffixes whose tail is
\* NullProd::hidden() has a null leaf after the child of the left
\* production.
C14_NullLeafFromHiddenTail ==
    \E i \in 1..Len(fcache.trace) :
        LET e == fcache.trace[i]
        IN  /\ e.ev = "ret"
            /\ e.res.kind = "Ok"
            /\ e.prod = Suffixes(A, FALSE, << << Plus, "S" >>,
                                             << NullProdHidden, "T" >> >>)
            /\ code = << "a" >>
            /\ e.res.children =
                   << ASTNode("T", 0, 1, << ASTLeaf("A", 0, 1), ASTNull(1) >>) >>

\* The children list l is in source order: every child starts at or after
\* the end of the child before it, and no child ends before it starts.
InSourceOrder(l) ==
    /\ \A k \in 1..Len(l) : l[k].start <= l[k].end
    /\ \A k \in 1..(Len(l) - 1) : l[k].end <= l[k + 1].start

\* C15: the children list of every successful return of a production, of
\* either driver, is in source order.
C15_ChildrenInSourceOrder ==
    \A t \in Traces : \A i \in 1..Len(t) :
        (t[i].ev = "ret" /\ t[i].res.kind = "Ok") =>
            InSourceOrder(t[i].res.children)

\* The parse of C15's failing input: the two NonStructural of the root have
\* both parsed the space between the two "a", and the root's children list
\* has the leaf of that space twice.
C15_SpaceParsedTwice ==
    /\ code = << "a", " ", "a" >>
    /\ root = Concat(<< A, NonStructural(NullableHidden(W), FALSE),
                        NullableHidden(Plus),
                        NonStructural(NullableHidden(W), FALSE), A >>)
    /\ fltrResult.state = "done"
    /\ fltrResult.ok
    /\ fltrResult.children =
           << ASTLeaf("A", 0, 1), ASTLeaf("W", 1, 2), ASTLeaf("W", 1, 2),
              ASTLeaf("A", 2, 3) >>


\* the structural tokens of the stream that start at or after a byte position
StructuralFrom(at) ==
    { k \in 1..Len(tokenized_stream) :
          /\ is_structural(tokenized_stream[k].token)
          /\ tokenized_stream[k].start >= at }

\* C11: when parse_stream fails with Unparsed, the ParseError reports the
\* first structural token that starts at or after max_parsed_point: its
\* start is the pointer, and the message has its text, or the end of the
\* file when it is the EOF token.
C11_ReportsFirstStructuralToken ==
    (fltrResult.state = "done" /\ fltrResult.err = "Unparsed") =>
        LET S == StructuralFrom(fcache.max_parsed_point)
            lex == tokenized_stream[CHOOSE k \in S : \A j \in S : k <= j]
        IN  /\ S # {}
            /\ fltrResult.error =
                   IF lex.token = EOF
                   THEN ParseError(lex.start, TRUE, << >>, "")
                   ELSE ParseError(lex.start, FALSE,
                                   SubSeq(code, lex.start + 1, lex.end), "")


\* The failing input of C11: after `a` the parse stops at the `+` that
\* starts at max_parsed_point = 1, and the ParseError reports the `a` at 2.
C11_TokenAtMaxParsedPointSkipped ==
    /\ root = Concat(<< A, A >>)
    /\ code = << "a", "+", "a" >>
    /\ fltrResult.state = "done"
    /\ fltrResult.err = "Unparsed"
    /\ fcache.max_parsed_point = 1
    /\ tokenized_stream[2] = Lex(PTok(<< "+" >>), 1, 2)
    /\ fltrResult.error = ParseError(2, FALSE, << "a" >>, "")


\* the trace and the result of each of the two drivers, once it has ended
DriverRuns ==
    { << cache.trace, byteResult >>, << fcache.trace, fltrResult >> }

\* t[i] is the return of a Validator whose validation_fn has given the
\* Validation error: the symbol of the Validator had returned Ok
ValidatorRaised(t, i) ==
    /\ i > 1
    /\ t[i].ev = "ret"
    /\ t[i].kind = "Validator"
    /\ t[i].res.kind = "Validation"
    /\ t[i - 1].ev = "ret"
    /\ t[i - 1].res.kind = "Ok"

\* C21: when the validation_fn of a Validator returns Validation(pos, msg),
\* the parse of the driver fails with a ParseError whose pointer is pos and
\* whose message starts with msg, whatever max_parsed_point is.
C21_ValidationReported ==
    \A run \in DriverRuns :
        run[2].state = "done" =>
            \A i \in DOMAIN run[1] :
                ValidatorRaised(run[1], i) =>
                    /\ run[2].err = "Validation"
                    /\ run[2].error = ParseError(run[1][i].res.pos, FALSE,
                                                 << >>, run[1][i].res.msg)

\* Both drivers report the Validation error of a Validator at position 0
\* after max_parsed_point has moved beyond it.
C21_Witness ==
    /\ byteResult.state = "done" /\ fltrResult.state = "done"
    /\ \E i \in DOMAIN cache.trace : ValidatorRaised(cache.trace, i)
    /\ \E i \in DOMAIN fcache.trace : ValidatorRaised(fcache.trace, i)
    /\ byteResult.error.pointer < cache.max_parsed_point
    /\ fltrResult.error.pointer < fcache.max_parsed_point
    /\ byteResult.error.msg # "" /\ fltrResult.error.msg # ""


\* the returns of the calls a production made between its call and its
\* return t[i]
ReturnsTo(t, i) ==
    { j \in OwnCall(t, i)..i :
          t[j].ev = "ret" /\ t[j].depth = t[i].depth + 1 }

\* t[i] is the return of a Suffixes whose left production has succeeded and
\* whose suffixes, as far as they were tried, have returned Unparsed
SuffixesAllFailed(t, i) ==
    /\ t[i].ev = "ret"
    /\ t[i].kind = "Suffixes"
    /\ ReturnsTo(t, i) # { }
    /\ LET left == LeftReturn(t, i)
       IN  /\ t[left].res.kind = "Ok"
           /\ \A j \in ReturnsTo(t, i) \ { left } :
                  t[j].res.kind = "Unparsed"

\* what C22 states of such a return; the children of the node start with
\* the children of left
SuffixesFallback(t, i) ==
    LET p == t[i].prod
        left == t[LeftReturn(t, i)].res
        suffixes == SubSeq(p.kids, 2, Len(p.kids))
        null_suffix == FirstNullable(suffixes)
        res == t[i].res
    IN  IF null_suffix # 0
        THEN /\ res.kind = "Ok"
             /\ Len(res.children) = 1
             /\ res.children[1].node = p.nodes[null_suffix]
             /\ Len(res.children[1].children) >= Len(left.children)
             /\ SubSeq(res.children[1].children, 1, Len(left.children))
                    = left.children
        ELSE IF p.flag THEN res = left
        ELSE res.kind = "Unparsed"

\* C22: in every mode, when the left production of a Suffixes has succeeded
\* and every suffix has failed with Unparsed, the result is the node of the
\* first nullable suffix around the children of left if a suffix is
\* nullable, otherwise the result of left if the Suffixes is standalone,
\* otherwise Unparsed.
C22_SuffixesFallback ==
    \A t \in Traces : \A i \in DOMAIN t :
        SuffixesAllFailed(t, i) => SuffixesFallback(t, i)


\* The failing input of C22: the suffix is nullable, it is tried for the
\* space after `a` and fails with Unparsed because it does not fill the
\* range of the two spaces; the Suffixes returns the bare result of left.
C22_NullableTailFailed ==
    /\ root = Suffixes(A, TRUE, << << NonStructural(NullableHidden(W), TRUE),
                                     "S" >> >>)
    /\ code = << "a", " ", " " >>
    /\ fltrResult.state = "done"
    /\ fltrResult.ok
    /\ fltrResult.children = << ASTLeaf("A", 0, 1) >>
    /\ \E i \in DOMAIN fcache.trace :
          /\ SuffixesAllFailed(fcache.trace, i)
          /\ Cardinality(ReturnsTo(fcache.trace, i)) = 2


\* the context of the call t[i]
CxOf(t, i) ==
    Cx(t[i].mode, code, IF t[i].mode = "byte" THEN << >> ELSE tokenized_stream)

\* the result a production gives at the position of the call t[i], parsed
\* on its own
ResultAt(t, i, q) == Advance(CxOf(t, i), q, t[i].index, CacheRoot, 0).res

\* the children of the Union of t[i] that succeed at its position
Succeeding(t, i) ==
    { k \in DOMAIN t[i].prod.kids :
          ResultAt(t, i, t[i].prod.kids[k]).kind = "Ok" }

\* C23: a Union that returns Ok or Unparsed returns the result of the first
\* of its productions, in the order of their declaration, that succeeds at
\* its position, and Unparsed only when none succeeds; this holds in the
\* modes that choose the productions by the first-set map as well.
C23_UnionFirstSuccess ==
    \A t \in Traces : \A i \in DOMAIN t :
        (/\ t[i].ev = "ret"
         /\ t[i].kind = "Union"
         /\ t[i].res.kind # "Validation") =>
            LET S == Succeeding(t, i)
            IN  IF S = { } THEN t[i].res.kind = "Unparsed"
                ELSE t[i].res =
                         ResultAt(t, i, t[i].prod.kids[
                                            CHOOSE k \in S :
                                                \A j \in S : k <= j])


\* The failing input of C23: at `a` the map has no entry, the Union of the
\* lexer-backed driver parses none of its productions and returns a null
\* leaf; its second production, which the lexer-less driver has parsed,
\* gives the node X around a null leaf.
C23_UnionWithoutItsProductions ==
    /\ root = Union(<< Plus, Node(NullProdNew, "X") >>)
    /\ code = << "a" >>
    /\ byteResult.state = "done" /\ fltrResult.state = "done"
    /\ byteResult.children = << ASTNode("X", 0, 0, << ASTNull(0) >>) >>
    /\ fltrResult.children = << ASTNull(0) >>
    /\ Succeeding(fcache.trace, Len(fcache.trace)) = { 2 }
    /\ ReturnsTo(fcache.trace, Len(fcache.trace)) = { }


\* the TokenStream of the lexer-backed driver
Stream == Cx("fltr", code, tokenized_stream)

\* t[i] is the call a NonStructural, entered from the filtered driver, makes
\* of its symbol
NonStructuralInner(t, i) ==
    /\ t[i].ev = "call"
    /\ t[i].depth > 0
    /\ t[i].mode = "token"
    /\ t[ParentCall(t, i)].kind = "NonStructural"
    /\ t[ParentCall(t, i)].mode = "fltr"

\* C24: a NonStructural entered at a filtered index starts its symbol at the
\* raw index after the previous structural token, and at the raw index 0
\* when it is entered at the first filtered index.
C24_StartsAfterLastStructural ==
    \A i \in DOMAIN fcache.trace :
        NonStructuralInner(fcache.trace, i) =>
            LET fltr_ptr == fcache.trace[ParentCall(fcache.trace, i)].index
            IN  fcache.trace[i].index =
                    IF fltr_ptr > 0
                    THEN get_token_ptr(Stream, fltr_ptr - 1) + 1
                    ELSE 0

\* The failing input of C24: the space before the first `a` is the raw
\* token 0; the symbol of the NonStructural is started at the raw index 1,
\* the `a`, and the parse has no leaf of the space.
C24_FirstTokenSkipped ==
    /\ root = Concat(<< NonStructural(NullableHidden(W), FALSE), List(A) >>)
    /\ code = << " ", "a" >>
    /\ fltrResult.state = "done"
    /\ fltrResult.children = << ASTLeaf("A", 1, 2) >>
    /\ \E i \in DOMAIN fcache.trace :
          /\ NonStructuralInner(fcache.trace, i)
          /\ fcache.trace[ParentCall(fcache.trace, i)].index = 0
          /\ fcache.trace[i].index = 1


\* t[i] is the return of a List
ListReturn(t, i) == t[i].ev = "ret" /\ t[i].kind = "List"

\* the List of t[i] has parsed its symbol at pairwise different positions
ParsedOncePerPosition(t, i) ==
    \A j, k \in CallsMade(t, OwnCall(t, i), i) :
        j # k => t[j].index # t[k].index

\* the parse t[j] of the symbol ends the List: it has failed or it has
\* consumed nothing
LastOfList(t, j) ==
    t[j].res.kind = "Ok" => t[j].res.consumed_index = t[j].index

\* the List of t[i] has returned after the first parse of its symbol that
\* failed or consumed nothing, and not before
StopsAtFirstEnd(t, i) ==
    \A j \in ReturnsTo(t, i) : LastOfList(t, j) <=> j + 1 = i

\* C25 as claimed: a List parses its symbol at most once at a position,
\* stops at the first parse that fails with Unparsed or consumes nothing,
\* and fails only if the first parse of its symbol fails.
C25_ListFailsOnlyAtFirst ==
    \A t \in Traces : \A i \in DOMAIN t :
        ListReturn(t, i) =>
            /\ ParsedOncePerPosition(t, i)
            /\ StopsAtFirstEnd(t, i)
            /\ t[i].res.kind # "Ok" => Cardinality(ReturnsTo(t, i)) = 1

\* C25, amended: a List parses its symbol at most once at a position and
\* stops at the first parse that fails or consumes nothing.  It fails with
\* the error of that parse if it is the first parse or if the error is a
\* Validation error; otherwise it succeeds.
C25_ListFailsAtFirstOrInvalid ==
    \A t \in Traces : \A i \in DOMAIN t :
        ListReturn(t, i) =>
            /\ ParsedOncePerPosition(t, i)
            /\ StopsAtFirstEnd(t, i)
            /\ t[i].res.kind # "Ok" <=>
                   /\ t[i - 1].res.kind # "Ok"
                   /\ \/ Cardinality(ReturnsTo(t, i)) = 1
                      \/ t[i - 1].res.kind = "Validation"
            /\ t[i].res.kind # "Ok" => t[i].res = t[i - 1].res

\* A List that has parsed its symbol more than once and returns the
\* Validation error of the last parse.
C25_Witness ==
    \E t \in Traces : \E i \in DOMAIN t :
        /\ ListReturn(t, i)
        /\ Cardinality(ReturnsTo(t, i)) > 1
        /\ t[i - 1].res.kind = "Validation"
        /\ t[i].res = t[i - 1].res


(***************************************************************************)
(* C26: find_filter_ptr(index) returns the Ok arm exactly when index is    *)
(* the raw index of a structural token, carrying the filtered index of     *)
(* that token, and otherwise the Err arm carrying the insertion point.     *)
(***************************************************************************)
\* index is the raw index of a structural token of the stream
AtStructural(index) ==
    /\ index < Len(tokenized_stream)
    /\ is_structural(tokenized_stream[index + 1].token)

\* the number of structural tokens before the raw index
InsertionPoint(index) ==
    Cardinality({ j \in 0..(Len(tokenized_stream) - 1) :
                      j < index /\ is_structural(tokenized_stream[j + 1].token) })

C26_OkExactlyAtStructural ==
    findResult.called =>
        /\ findResult.ok <=> AtStructural(findResult.index)
        /\ findResult.i = InsertionPoint(findResult.index)
        /\ findResult.ok =>
               FilteredIndices(tokenized_stream)[findResult.i + 1]
                   = findResult.index

\* Ok is returned for the raw index of a space, with the filtered index of
\* the structural token after it.
C26_OkAtNonStructural ==
    /\ findResult.called
    /\ findResult.index < Len(tokenized_stream)
    /\ ~AtStructural(findResult.index)
    /\ findResult.ok
    /\ findResult.i = InsertionPoint(findResult.index)
    /\ FilteredIndices(tokenized_stream)[findResult.i + 1] > findResult.index


(***************************************************************************)
(* C27: SeparatedList terminates on every input, also when the body and    *)
(* the separator can both succeed without consuming any input.             *)
(***************************************************************************)
\* Every iteration of the loop ends consume or changes its locals or the
\* cache: an iteration is a function of these, so one that changes nothing
\* is repeated for ever.
C27_SeparatedListTerminates == ~sepList.repeats

\* The head of the loop is reached with a body and a separator that both
\* derive the empty string, at the end of the input, where neither can
\* consume.
C27_NullableBodyAndSeparator ==
    /\ mode = "seplist"
    /\ sepList.state = "loop"
    /\ IsNullable(root.kids[1])
    /\ IsNullable(root.kids[2])
    /\ sepList.moved_ptr = Len(code)
    /\ sepList.repeats


(***************************************************************************)
(* C28: tokenization terminates for every input and every lexeme list:     *)
(* each token accepted by the loop of tokenize moves the cursor forward by *)
(* at least one byte and never past the end of the input.                  *)
(***************************************************************************)
C28_TokenMovesWithinInput ==
    lastStep.matched =>
        /\ lastStep.start < pointer
        /\ pointer <= Len(code)

\* The loop goes on after accepting the empty token more than once at a
\* cursor before the end of the input.
C28_EmptyTokenRepeated ==
    /\ tkStatus = "run"
    /\ lastStep.matched
    /\ pointer = lastStep.start
    /\ pointer < Len(code)
    /\ Len(tokenized_stream) >= 2
    /\ \A i \in DOMAIN tokenized_stream :
           tokenized_stream[i] = Lex(PTok(<< >>), pointer, pointer)


(***************************************************************************)
(* C29: a lexeme call that returns None leaves the state stack exactly as  *)
(* it was before the call, so the state stack changes only in an iteration *)
(* where the tokenizer accepts a token and moves the cursor.               *)
(***************************************************************************)
\* In the last iteration the calls before the one that gave the token, or
\* all calls when none gave a token, returned None: the stack the accepting
\* lexeme was called with, or the stack after the iteration, is the stack
\* the iteration began with.
C29_NoneLeavesStateStack ==
    tkStatus # "panic" =>
        /\ lastStep.matched => lastStep.at = lastStep.stack
        /\ ~lastStep.matched => state_stack = lastStep.stack

\* Tokenization has failed in an iteration where every call returned None,
\* one of them after discarding its token, and the state stack is not the
\* one the iteration began with.
C29_DiscardChangedStack ==
    /\ tkStatus = "err"
    /\ ~lastStep.matched
    /\ lastStep.disc # << >>
    /\ state_stack # lastStep.stack
    /\ pointer = lastStep.start


(***************************************************************************)
(* C30: tokenizing an empty input succeeds and yields a token list that    *)
(* contains only the EOF token with start = end = 0.                       *)
(***************************************************************************)
C30_EmptyInputOnlyEof ==
    (code = << >> /\ tkStatus \notin { "idle", "run" }) =>
        /\ tkStatus = "ok"
        /\ tokenized_stream = << Lex(EOF, 0, 0) >>

\* tokenize has returned the error of its first iteration on the empty
\* input: every lexeme of the list was called at 0 and none gave a token.
C30_EmptyInputFails ==
    /\ code = << >>
    /\ tkStatus = "err"
    /\ pointer = 0
    /\ tokenized_stream = << >>
    /\ Len(lastStep.calls) = lastStep.n
    /\ lastStep.n >= 1

=============================================================================
